---- MODULE Spec2Model ----
(***************************************************************************)
(* Model of dataset_generators/LTL_dataset_generator.py: the proposition   *)
(* sampler, the grounding and alignment engine (build_entry_for_props),    *)
(* the trace synthesiser (_make_traces), the validator (_entry_is_valid)   *)
(* and the dataset driver (build_dataset_entries).                         *)
(*                                                                         *)
(* Python strings are TLA+ strings; Len, SubSeq and \o act on their        *)
(* characters.  A Python list is a sequence, a dict is a sequence of       *)
(* <<key, value>> pairs in insertion order or a record.                    *)
(***************************************************************************)
EXTENDS Integers, Sequences, FiniteSets, TLC

VARIABLES scenario, num_entries, max_props, dataset, pc, want_labels, lbl_i, attempt,
          props, atoms_used, entry, probe, call

vars == <<scenario, num_entries, max_props, dataset, pc, want_labels, lbl_i, attempt,
          props, atoms_used, entry, probe, call>>

(***************************************************************************)
(* String primitives (str methods used by the source).                     *)
(***************************************************************************)
Char(s, i) == SubSeq(s, i, i)

Range(q) == {q[i] : i \in 1..Len(q)}

endswith(s, suf) ==
    /\ Len(suf) <= Len(s)
    /\ SubSeq(s, Len(s) - Len(suf) + 1, Len(s)) = suf

startswith(s, pre) ==
    /\ Len(pre) <= Len(s)
    /\ SubSeq(s, 1, Len(pre)) = pre

\* sub in s
contains(s, sub) ==
    \E i \in 1..(Len(s) - Len(sub) + 1) : SubSeq(s, i, i + Len(sub) - 1) = sub

\* str.lower() and str.upper() on one character
LowerOf ==
    [ A |-> "a", B |-> "b", C |-> "c", D |-> "d", E |-> "e", F |-> "f", G |-> "g",
      H |-> "h", I |-> "i", J |-> "j", K |-> "k", L |-> "l", M |-> "m", N |-> "n",
      O |-> "o", P |-> "p", Q |-> "q", R |-> "r", S |-> "s", T |-> "t", U |-> "u",
      V |-> "v", W |-> "w", X |-> "x", Y |-> "y", Z |-> "z" ]

UpperOf ==
    [ a |-> "A", b |-> "B", c |-> "C", d |-> "D", e |-> "E", f |-> "F", g |-> "G",
      h |-> "H", i |-> "I", j |-> "J", k |-> "K", l |-> "L", m |-> "M", n |-> "N",
      o |-> "O", p |-> "P", q |-> "Q", r |-> "R", s |-> "S", t |-> "T", u |-> "U",
      v |-> "V", w |-> "W", x |-> "X", y |-> "Y", z |-> "Z" ]

lower_char(c) == IF c \in DOMAIN LowerOf THEN LowerOf[c] ELSE c

upper_char(c) == IF c \in DOMAIN UpperOf THEN UpperOf[c] ELSE c

\* s.lower().  The recursions on characters halve the string, so that their
\* depth stays logarithmic in its length.
RECURSIVE lower(_)
lower(s) ==
    IF Len(s) <= 1 THEN lower_char(s)
    ELSE lower(SubSeq(s, 1, Len(s) \div 2)) \o lower(SubSeq(s, Len(s) \div 2 + 1, Len(s)))

\* str.capitalize(): first character upper-cased, the rest lower-cased
capitalize(s) == IF s = "" THEN "" ELSE upper_char(Char(s, 1)) \o lower(SubSeq(s, 2, Len(s)))

\* str.replace(a, b) for single characters a, b
RECURSIVE replace(_, _, _)
replace(s, a, b) ==
    IF Len(s) <= 1 THEN (IF s = a THEN b ELSE s)
    ELSE replace(SubSeq(s, 1, Len(s) \div 2), a, b)
         \o replace(SubSeq(s, Len(s) \div 2 + 1, Len(s)), a, b)

\* string.punctuation (without the grave accent, which no text of the model holds)
string_punctuation == "!\"#$%&'()*+,-./:;<=>?@[\\]^_{|}~"

is_punct_char(c) == \E i \in 1..Len(string_punctuation) : Char(string_punctuation, i) = c

\* s.rstrip(string.punctuation)
RECURSIVE rstrip_punct(_)
rstrip_punct(s) ==
    IF s # "" /\ is_punct_char(Char(s, Len(s)))
    THEN rstrip_punct(SubSeq(s, 1, Len(s) - 1))
    ELSE s

\* "".join(q) for a sequence of strings, and the concatenation of a sequence
\* of sequences
RECURSIVE concat_str(_)
concat_str(q) ==
    IF Len(q) = 0 THEN ""
    ELSE IF Len(q) = 1 THEN q[1]
    ELSE concat_str(SubSeq(q, 1, Len(q) \div 2)) \o concat_str(SubSeq(q, Len(q) \div 2 + 1, Len(q)))

RECURSIVE concat_seq(_)
concat_seq(q) ==
    IF Len(q) = 0 THEN <<>>
    ELSE IF Len(q) = 1 THEN q[1]
    ELSE concat_seq(SubSeq(q, 1, Len(q) \div 2)) \o concat_seq(SubSeq(q, Len(q) \div 2 + 1, Len(q)))

\* sep.join(q)
join(q, sep) == concat_str([j \in 1..Len(q) |-> IF j > 1 THEN sep \o q[j] ELSE q[j]])

\* s.split(): the maximal runs of non-blank characters of s, in order
RECURSIVE split(_)
split(s) ==
    LET blanks == {i \in 1..Len(s) : Char(s, i) = " "}
    IN  IF blanks = {} THEN (IF s = "" THEN <<>> ELSE <<s>>)
        ELSE LET mid == (Len(s) + 1) \div 2
                 dist(i) == IF i >= mid THEN i - mid ELSE mid - i
                 b == CHOOSE i \in blanks : \A k \in blanks : dist(i) <= dist(k)
             IN  split(SubSeq(s, 1, b - 1)) \o split(SubSeq(s, b + 1, Len(s)))

\* f"prop_{i}"
prop_tok(i) == "prop_" \o ToString(i)

IsDigit(c) == \E i \in 1..10 : Char("0123456789", i) = c

\* _PLACEHOLDER_RE = ^prop_\d+$
PLACEHOLDER_RE_match(s) ==
    /\ Len(s) > 5
    /\ startswith(s, "prop_")
    /\ \A i \in 6..Len(s) : IsDigit(Char(s, i))

(***************************************************************************)
(* Vocabulary (load_scenario, build_actions_dict).                         *)
(***************************************************************************)
\* build_actions_dict(): canonical verb -> surface synonyms
build_actions_dict ==
    [ search      |-> <<"locate", "find", "look for", "search for">>,
      pickup      |-> <<"pick up", "grab", "retrieve", "collect">>,
      deliver     |-> <<"deliver", "drop off", "hand over", "transport">>,
      idle        |-> <<"idle", "wait", "remain still", "stand by">>,
      go_home     |-> <<"return to base", "go home", "return home", "go back to base">>,
      communicate |-> <<"talk to", "communicate with", "establish communication with">>,
      deliver_aid |-> <<"give aid to", "deliver aid to", "provide assistance to">>,
      record      |-> <<"record", "begin recording", "take a video of">>,
      photo       |-> <<"photograph", "take a picture of", "take a photo of">>,
      avoid       |-> <<"avoid", "stay away from", "do not go near">>,
      get_help    |-> <<"call for help", "request assistance", "get help">>,
      change      |-> <<"change", "switch", "set", "update">> ]

\* The scenario tables the model is run on.  actions_cfg is cfg["actions"]
\* (verb -> params), objects is the object-name table as <<key, synonyms>>
\* pairs, locs is cfg["locations"].
ScenarioOneAtom ==
    [ actions_cfg |-> [record |-> <<"item">>],
      objects     |-> << <<"box", <<"box">>>> >>,
      locs        |-> <<>> ]

ScenarioTwoAtoms ==
    [ actions_cfg |-> [get_help |-> <<>>, record |-> <<"item">>],
      objects     |-> << <<"box", <<"box">>>> >>,
      locs        |-> <<>> ]

\* load_scenario: actions_dict keeps the verbs of build_actions_dict() that
\* the scenario configures
actions_dict_of(sc) ==
    [v \in (DOMAIN build_actions_dict) \cap (DOMAIN sc.actions_cfg) |-> build_actions_dict[v]]

(***************************************************************************)
(* _sample_argument: the set of (canonical, reference) pairs the random    *)
(* draws can produce for a kind; the empty set stands for the ValueError.  *)
(***************************************************************************)
KnownKinds ==
    {"item", "location", "ego", "person", "threat", "light", "lane",
     "traffic_target", "sr_target", "color"}

ThreatNouns == {"gas_leak", "unstable_beam", "fire_source", "debris", "flood"}

_sample_argument(kind, objects, locs) ==
    CASE kind = "item" ->
           UNION { { <<replace(objects[k][1], " ", "_"), replace(objects[k][2][r], "_", " ")>> :
                       r \in 1..Len(objects[k][2]) } : k \in 1..Len(objects) }
      [] kind = "location" ->
           { <<locs[i], replace(locs[i], "_", " ")>> : i \in 1..Len(locs) }
      [] kind = "ego" -> { <<"ego", "yourself">> }
      [] kind = "person" ->
           { <<m \o "_" \o n, replace(m \o "_" \o n, "_", " ")>> :
               <<m, n>> \in {"injured", "safe"} \X {"victim", "rescuer", "hostile"} }
      [] kind = "threat" ->
           { <<m \o "_" \o n, replace(m \o "_" \o n, "_", " ")>> :
               <<m, n>> \in {"active", "inactive", "impending", "probable", "nearest"} \X ThreatNouns }
      [] kind = "light" ->
           { <<"light_" \o locs[i], replace(locs[i] \o " light", "_", " ")>> : i \in 1..Len(locs) }
      [] kind = "lane" ->
           { <<d \o "_" \o n \o "_" \o r, replace(d \o "_" \o n \o "_" \o r, "_", " ")>> :
               <<d, n, r>> \in
                 {"north", "south", "east", "west", "northwest", "northeast", "southwest", "southeast"}
                 \X {"1st", "2nd", "3rd", "4th", "5th", "6th", "7th", "8th", "9th", "10th"}
                 \X {"street", "avenue"} }
      [] kind = "traffic_target" ->
           { <<c, c>> : c \in {"person", "pedestrian", "vehicle", "car", "motorcycle",
                               "cyclist", "jaywalker", "collision"} }
      [] kind = "sr_target" ->
           { <<m \o "_" \o n, replace(m \o "_" \o n, "_", " ")>> :
               <<m, n>> \in {"injured", "safe", "unsafe"} \X {"person", "civilian", "victim", "rescuer"} }
           \cup { <<c, replace(c, "_", " ")>> : c \in ThreatNouns }
      [] kind = "color" -> { <<c, c>> : c \in {"red", "yellow", "green"} }
      [] OTHER -> {}

RECURSIVE sample_arguments_skips_unknown(_, _, _)
sample_arguments_skips_unknown(params, objects, locs) ==
    IF Len(params) = 0 THEN { << <<>>, <<>> >> }
    ELSE IF params[1] \notin KnownKinds
         THEN sample_arguments_skips_unknown(Tail(params), objects, locs)
    ELSE { << <<cr[1]>> \o rest[1], <<cr[2]>> \o rest[2] >> :
             <<cr, rest>> \in _sample_argument(params[1], objects, locs)
                              \X sample_arguments_skips_unknown(Tail(params), objects, locs) }

\* The argument lists a verb's params can draw: every choice of one pair per kind
RECURSIVE sample_arguments(_, _, _)
sample_arguments(params, objects, locs) ==
    IF Len(params) = 0 THEN { << <<>>, <<>> >> }
    ELSE { << <<cr[1]>> \o rest[1], <<cr[2]>> \o rest[2] >> :
             <<cr, rest>> \in _sample_argument(params[1], objects, locs)
                              \X sample_arguments(Tail(params), objects, locs) }

\* the canonical atom string: verb(arg1,...,argn), or the bare verb
atom_string(verb, a_canon) ==
    IF Len(a_canon) > 0 THEN verb \o "(" \o join(a_canon, ",") \o ")" ELSE verb

_atom(info) == atom_string(info.action_canon, info.args_canon)

(***************************************************************************)
(* Skeleton catalog, sentence templates and trace rules.                   *)
(***************************************************************************)
\* LTL_TEMPLATES_STATE (after the extend of line 637): <<name, arity>> in list order
LTL_TEMPLATES_STATE ==
    << <<"F_NOT", 1>>,
       <<"G_NOT", 1>>,
       <<"F_AND", 2>>,
       <<"G_AND", 2>>,
       <<"F_OR", 2>>,
       <<"G_OR", 2>>,
       <<"X", 1>>,
       <<"U", 2>>,
       <<"G_IMPL_F", 2>>,
       <<"G_NOT_AND", 2>>,
       <<"G_IMPL_XXX", 2>>,
       <<"U_GF", 2>>,
       <<"F_B_IMPL_A_BEFORE", 2>>,
       <<"G_IMPL", 2>>,
       <<"G_AND_PAIR", 2>>,
       <<"G_A_AND_G_B_IMPL_NOT_C", 3>>,
       <<"G_IMPL_F_IMPL_GF", 3>>,
       <<"GF_IMPL_GF", 2>>,
       <<"GF_OR_GF", 2>>,
       <<"FG_NOT", 1>>,
       <<"G_NOT_AND_IMPL_F", 3>>,
       <<"EXCLUSIVE_ALWAYS_ONE", 2>>,
       <<"G_EQ_IMPL_EQ", 3>>,
       <<"NOT_A_UNTIL_B", 2>>,
       <<"G_A_IMPL_XG_NOT_B", 2>>,
       <<"A_RELEASES_B", 2>>,
       <<"G_NOT_AND_ALT", 2>>,
       <<"TWO_STEP_TRIGGER", 3>>,
       <<"NEXT_EVENTUAL", 2>>,
       <<"EVERY_FIFTH_STEP", 1>>,
       <<"GF_A_OR_NEXT_B", 2>>,
       <<"G_ALWAYS_A", 1>>,
       <<"A_IMPL_B_WITHIN_1", 2>>,
       <<"G_ONE_OF_ABC", 3>>,
       <<"A_IMPL_EVENTUAL_B", 2>>,
       <<"ALMOST_ALWAYS_A", 1>>,
       <<"NOT_A_AT_MOST_TWO", 1>>,
       <<"A_EVERY_THIRD_STEP", 1>>,
       <<"NEXT_FOLLOW", 2>>,
       <<"EVENTUALLY_BOTH", 2>>,
       <<"BOTH_EVENTUAL", 2>>,
       <<"STEPWISE_EQUALITY", 2>>,
       <<"RESPONSE_UNTIL_OR_ALWAYS", 3>>,
       <<"UNTIL_OR_ALWAYS", 2>> >>

\* the formula builder (third component) of the skeleton named key, applied to P
skeleton(key, P) ==
    CASE key = "F_NOT" ->
           <<"finally", "(", "not", P[1], ")">>
      [] key = "G_NOT" ->
           <<"globally", "(", "not", P[1], ")">>
      [] key = "F_AND" ->
           <<"finally", "(", P[1], "and", P[2], ")">>
      [] key = "G_AND" ->
           <<"globally", "(", P[1], "and", P[2], ")">>
      [] key = "F_OR" ->
           <<"finally", "(", P[1], "or", P[2], ")">>
      [] key = "G_OR" ->
           <<"globally", "(", P[1], "or", P[2], ")">>
      [] key = "X" ->
           <<"next", P[1]>>
      [] key = "U" ->
           <<"(", P[1], "until", P[2], ")">>
      [] key = "G_IMPL_F" ->
           split("globally ( " \o P[1] \o " implies finally " \o P[2] \o " )")
      [] key = "G_NOT_AND" ->
           split("globally ( not ( " \o P[1] \o " and " \o P[2] \o " ) )")
      [] key = "G_IMPL_XXX" ->
           split("globally ( " \o P[1] \o " implies next ( next ( next " \o P[2] \o " ) ) )")
      [] key = "U_GF" ->
           split(P[1] \o " until ( globally ( finally " \o P[2] \o " ) )")
      [] key = "F_B_IMPL_A_BEFORE" ->
           split("( finally " \o P[2] \o " ) implies ( not " \o P[2] \o " until ( " \o P[1] \o " and not " \o P[2] \o " ) )")
      [] key = "G_IMPL" ->
           split("globally ( " \o P[1] \o " implies " \o P[2] \o " )")
      [] key = "G_AND_PAIR" ->
           split("globally ( " \o P[1] \o " and " \o P[2] \o " )")
      [] key = "G_A_AND_G_B_IMPL_NOT_C" ->
           split("globally " \o P[1] \o " and globally ( " \o P[2] \o " implies not " \o P[3] \o " )")
      [] key = "G_IMPL_F_IMPL_GF" ->
           split("globally ( " \o P[1] \o " implies finally " \o P[2] \o " ) implies globally finally " \o P[3])
      [] key = "GF_IMPL_GF" ->
           split("globally finally " \o P[1] \o " implies globally finally " \o P[2])
      [] key = "GF_OR_GF" ->
           split("globally finally " \o P[1] \o " or globally finally " \o P[2])
      [] key = "FG_NOT" ->
           split("finally globally not " \o P[1])
      [] key = "G_NOT_AND_IMPL_F" ->
           split("globally ( not ( " \o P[1] \o " and " \o P[2] \o " ) implies finally " \o P[3] \o " )")
      [] key = "EXCLUSIVE_ALWAYS_ONE" ->
           split("globally ( not ( " \o P[1] \o " and " \o P[2] \o " ) ) and globally ( " \o P[1] \o " or " \o P[2] \o " )")
      [] key = "G_EQ_IMPL_EQ" ->
           split("globally ( ( " \o P[1] \o " double_implies " \o P[2] \o " ) implies ( " \o P[2] \o " double_implies " \o P[3] \o " ) )")
      [] key = "NOT_A_UNTIL_B" ->
           split("not " \o P[1] \o " until " \o P[2])
      [] key = "G_A_IMPL_XG_NOT_B" ->
           split("globally ( " \o P[1] \o " implies next globally not " \o P[2] \o " )")
      [] key = "A_RELEASES_B" ->
           split("( " \o P[2] \o " until ( " \o P[2] \o " and not " \o P[1] \o " ) ) or globally " \o P[2])
      [] key = "G_NOT_AND_ALT" ->
           split("globally not ( " \o P[1] \o " and " \o P[2] \o " )")
      [] key = "TWO_STEP_TRIGGER" ->
           split("globally ( " \o P[1] \o " and next " \o P[2] \o " implies next next " \o P[3] \o " )")
      [] key = "NEXT_EVENTUAL" ->
           split("globally ( " \o P[1] \o " implies next finally " \o P[2] \o " )")
      [] key = "EVERY_FIFTH_STEP" ->
           split(P[1] \o " and globally ( " \o P[1] \o " implies next not " \o P[1] \o " and next next not " \o P[1] \o " and next next next not " \o P[1] \o " and next next next next not " \o P[1] \o " and next next next next next " \o P[1] \o " )")
      [] key = "GF_A_OR_NEXT_B" ->
           split("globally finally " \o P[1] \o " or next " \o P[2])
      [] key = "G_ALWAYS_A" ->
           split("globally " \o P[1])
      [] key = "A_IMPL_B_WITHIN_1" ->
           split("globally ( " \o P[1] \o " implies ( " \o P[2] \o " or next " \o P[2] \o " ) )")
      [] key = "G_ONE_OF_ABC" ->
           split("globally ( " \o P[1] \o " or " \o P[2] \o " or " \o P[3] \o " )")
      [] key = "A_IMPL_EVENTUAL_B" ->
           split("globally ( " \o P[1] \o " implies finally " \o P[2] \o " )")
      [] key = "ALMOST_ALWAYS_A" ->
           split("not globally ( not ( " \o P[1] \o " and next " \o P[1] \o " ) )")
      [] key = "NOT_A_AT_MOST_TWO" ->
           split("not globally ( not ( " \o P[1] \o " and next " \o P[1] \o " ) )")
      [] key = "A_EVERY_THIRD_STEP" ->
           split("globally ( " \o P[1] \o " implies ( next not " \o P[1] \o " or next next not " \o P[1] \o " or next next next " \o P[1] \o " ) )")
      [] key = "NEXT_FOLLOW" ->
           split("globally ( " \o P[1] \o " implies next " \o P[2] \o " )")
      [] key = "EVENTUALLY_BOTH" ->
           split("finally ( " \o P[1] \o " and " \o P[2] \o " )")
      [] key = "BOTH_EVENTUAL" ->
           split("finally " \o P[1] \o " and finally " \o P[2])
      [] key = "STEPWISE_EQUALITY" ->
           split("globally ( " \o P[1] \o " double_implies next " \o P[2] \o " )")
      [] key = "RESPONSE_UNTIL_OR_ALWAYS" ->
           split(P[2] \o " implies next ( ( " \o P[3] \o " until " \o P[1] \o " ) or globally " \o P[3] \o " )")
      [] key = "UNTIL_OR_ALWAYS" ->
           split("( " \o P[1] \o " until " \o P[2] \o " ) or globally " \o P[1])

\* SEMANTIC_TEMPLATES (after the setdefault/extend of lines 638-639): templates per key
SEMANTIC_TEMPLATES_count ==
    [ F_NOT |-> 1,
      G_NOT |-> 1,
      F_AND |-> 1,
      G_AND |-> 1,
      F_OR |-> 1,
      G_OR |-> 1,
      NOT |-> 2,
      AND |-> 2,
      OR |-> 1,
      G_IMPL_F |-> 1,
      G_NOT_AND |-> 1,
      G_IMPL_XXX |-> 1,
      U_GF |-> 1,
      F_B_IMPL_A_BEFORE |-> 1,
      G_IMPL |-> 1,
      G_AND_PAIR |-> 1,
      G_A_AND_G_B_IMPL_NOT_C |-> 1,
      G_IMPL_F_IMPL_GF |-> 1,
      GF_IMPL_GF |-> 1,
      GF_OR_GF |-> 1,
      FG_NOT |-> 1,
      G_NOT_AND_IMPL_F |-> 1,
      EXCLUSIVE_ALWAYS_ONE |-> 1,
      G_EQ_IMPL_EQ |-> 1,
      NOT_A_UNTIL_B |-> 1,
      G_A_IMPL_XG_NOT_B |-> 1,
      A_RELEASES_B |-> 1,
      G_NOT_AND_ALT |-> 1,
      TWO_STEP_TRIGGER |-> 1,
      NEXT_EVENTUAL |-> 1,
      EVERY_FIFTH_STEP |-> 1,
      GF_A_OR_NEXT_B |-> 1,
      G_ALWAYS_A |-> 1,
      A_IMPL_B_WITHIN_1 |-> 1,
      G_ONE_OF_ABC |-> 1,
      A_IMPL_EVENTUAL_B |-> 1,
      ALMOST_ALWAYS_A |-> 1,
      NOT_A_AT_MOST_TWO |-> 1,
      A_EVERY_THIRD_STEP |-> 1,
      NEXT_FOLLOW |-> 1,
      EVENTUALLY_BOTH |-> 1,
      BOTH_EVENTUAL |-> 1,
      STEPWISE_EQUALITY |-> 1,
      RESPONSE_UNTIL_OR_ALWAYS |-> 1,
      UNTIL_OR_ALWAYS |-> 1 ]

\* the t-th sentence template of key applied to the segments s.  The em dash
\* (U+2014) of the A_RELEASES_B template is written EMDASH: like the em
\* dash it is one blank-separated token and holds no character of
\* string.punctuation.
semantic_template(key, t, s) ==
    CASE key = "F_NOT" /\ t = 1 ->
           "eventually, avoid " \o s[1] \o "."
      [] key = "G_NOT" /\ t = 1 ->
           "always avoid " \o s[1] \o "."
      [] key = "F_AND" /\ t = 1 ->
           "eventually " \o s[1] \o " and " \o s[2] \o "."
      [] key = "G_AND" /\ t = 1 ->
           "always maintain both " \o s[1] \o " and " \o s[2] \o "."
      [] key = "F_OR" /\ t = 1 ->
           "eventually " \o s[1] \o " or " \o s[2] \o "."
      [] key = "G_OR" /\ t = 1 ->
           "always have either " \o s[1] \o " or " \o s[2] \o "."
      [] key = "NOT" /\ t = 1 ->
           "never " \o s[1] \o "."
      [] key = "NOT" /\ t = 2 ->
           "avoid " \o s[1] \o " at all costs."
      [] key = "AND" /\ t = 1 ->
           s[1] \o " and " \o s[2] \o "."
      [] key = "AND" /\ t = 2 ->
           "ensure both " \o s[1] \o " and " \o s[2] \o "."
      [] key = "OR" /\ t = 1 ->
           s[1] \o " or " \o s[2] \o "."
      [] key = "G_IMPL_F" /\ t = 1 ->
           "Globally, if " \o s[1] \o " occurs then finally " \o s[2] \o " happens."
      [] key = "G_NOT_AND" /\ t = 1 ->
           "Globally, it is not the case that both " \o s[1] \o " and " \o s[2] \o " hold simultaneously."
      [] key = "G_IMPL_XXX" /\ t = 1 ->
           "Whenever " \o s[1] \o " holds, " \o s[2] \o " holds exactly three steps later."
      [] key = "U_GF" /\ t = 1 ->
           s[1] \o " must keep holding until, from some point on, " \o s[2] \o " holds infinitely often."
      [] key = "F_B_IMPL_A_BEFORE" /\ t = 1 ->
           "If " \o s[2] \o " ever holds, " \o s[1] \o " must have held beforehand."
      [] key = "G_IMPL" /\ t = 1 ->
           "Whenever " \o s[1] \o " holds, " \o s[2] \o " holds as well."
      [] key = "G_AND_PAIR" /\ t = 1 ->
           "Both " \o s[1] \o " and " \o s[2] \o " hold at every step."
      [] key = "G_A_AND_G_B_IMPL_NOT_C" /\ t = 1 ->
           s[1] \o " holds always, and whenever " \o s[2] \o " holds, " \o s[3] \o " does not."
      [] key = "G_IMPL_F_IMPL_GF" /\ t = 1 ->
           "If every " \o s[1] \o " is eventually followed by " \o s[2] \o ", then " \o s[3] \o " must occur infinitely often."
      [] key = "GF_IMPL_GF" /\ t = 1 ->
           "If " \o s[1] \o " happens infinitely often, then so does " \o s[2] \o "."
      [] key = "GF_OR_GF" /\ t = 1 ->
           "Either " \o s[1] \o " or " \o s[2] \o " happens infinitely often."
      [] key = "FG_NOT" /\ t = 1 ->
           "From some point onwards, " \o s[1] \o " never occurs again."
      [] key = "G_NOT_AND_IMPL_F" /\ t = 1 ->
           "Whenever neither " \o s[1] \o " nor " \o s[2] \o " holds, " \o s[3] \o " eventually holds."
      [] key = "EXCLUSIVE_ALWAYS_ONE" /\ t = 1 ->
           s[1] \o " and " \o s[2] \o " never coincide, yet one of them is always true."
      [] key = "G_EQ_IMPL_EQ" /\ t = 1 ->
           "Whenever " \o s[1] \o " and " \o s[2] \o " are equal, " \o s[2] \o " and " \o s[3] \o " are equal as well."
      [] key = "NOT_A_UNTIL_B" /\ t = 1 ->
           s[1] \o " can only happen after " \o s[2] \o "."
      [] key = "G_A_IMPL_XG_NOT_B" /\ t = 1 ->
           "Once " \o s[1] \o " has occurred, " \o s[2] \o " will never occur again."
      [] key = "A_RELEASES_B" /\ t = 1 ->
           s[1] \o " releases " \o s[2] \o " EMDASH after " \o s[1] \o " ends, " \o s[2] \o " must hold continuously."
      [] key = "G_NOT_AND_ALT" /\ t = 1 ->
           s[1] \o " and " \o s[2] \o " are mutually exclusive at all times."
      [] key = "TWO_STEP_TRIGGER" /\ t = 1 ->
           "If " \o s[1] \o " holds and " \o s[2] \o " holds next, then " \o s[3] \o " holds in the step after that."
      [] key = "NEXT_EVENTUAL" /\ t = 1 ->
           "Whenever " \o s[1] \o " holds, from the next step onwards " \o s[2] \o " will eventually hold."
      [] key = "EVERY_FIFTH_STEP" /\ t = 1 ->
           s[1] \o " holds exactly every fifth step."
      [] key = "GF_A_OR_NEXT_B" /\ t = 1 ->
           "Either " \o s[1] \o " happens infinitely often, or " \o s[2] \o " happens in the next step."
      [] key = "G_ALWAYS_A" /\ t = 1 ->
           s[1] \o " holds at all times."
      [] key = "A_IMPL_B_WITHIN_1" /\ t = 1 ->
           "When " \o s[1] \o " happens, " \o s[2] \o " must hold now or in the next step."
      [] key = "G_ONE_OF_ABC" /\ t = 1 ->
           "At every moment, at least one of " \o s[1] \o ", " \o s[2] \o ", or " \o s[3] \o " holds."
      [] key = "A_IMPL_EVENTUAL_B" /\ t = 1 ->
           "Whenever " \o s[1] \o " holds, eventually " \o s[2] \o " will hold."
      [] key = "ALMOST_ALWAYS_A" /\ t = 1 ->
           s[1] \o " should always hold, with at most a two-step grace period for recovery."
      [] key = "NOT_A_AT_MOST_TWO" /\ t = 1 ->
           "Not " \o s[1] \o " may last at most two consecutive steps."
      [] key = "A_EVERY_THIRD_STEP" /\ t = 1 ->
           s[1] \o " occurs at most once every three steps."
      [] key = "NEXT_FOLLOW" /\ t = 1 ->
           "Every " \o s[1] \o " is directly followed by " \o s[2] \o " in the next step."
      [] key = "EVENTUALLY_BOTH" /\ t = 1 ->
           "Eventually, both " \o s[1] \o " and " \o s[2] \o " hold simultaneously."
      [] key = "BOTH_EVENTUAL" /\ t = 1 ->
           s[1] \o " and " \o s[2] \o " will each happen at some point."
      [] key = "STEPWISE_EQUALITY" /\ t = 1 ->
           "At every step, " \o s[1] \o " equals the value of " \o s[2] \o " in the next step."
      [] key = "RESPONSE_UNTIL_OR_ALWAYS" /\ t = 1 ->
           "If " \o s[2] \o " holds, then in the next step " \o s[3] \o " persists until " \o s[1] \o " holds, or else " \o s[3] \o " holds forever."
      [] key = "UNTIL_OR_ALWAYS" /\ t = 1 ->
           s[1] \o " must hold until " \o s[2] \o " does, or else " \o s[1] \o " holds forever."

\* _TRACE_BUILDERS[key](L, g): a trace is a sequence of moments, a moment the
\* sequence of atoms true in it
TRACE_BUILDERS_keys ==
    {"NOT", "F_NOT", "G_NOT", "X", "NOT_A_UNTIL_B", "F_AND", "G_AND", "F_OR", "G_OR", "AND", "OR", "G_IMPL_F", "G_NOT_AND", "G_IMPL_XXX", "U_GF", "F_B_IMPL_A_BEFORE", "G_IMPL", "G_AND_PAIR", "G_A_AND_G_B_IMPL_NOT_C", "G_IMPL_F_IMPL_GF", "GF_IMPL_GF", "GF_OR_GF", "FG_NOT", "G_NOT_AND_IMPL_F", "EXCLUSIVE_ALWAYS_ONE", "G_EQ_IMPL_EQ", "G_A_IMPL_XG_NOT_B", "A_RELEASES_B", "G_NOT_AND_ALT", "TWO_STEP_TRIGGER", "NEXT_EVENTUAL", "EVERY_FIFTH_STEP", "GF_A_OR_NEXT_B", "G_ALWAYS_A", "A_IMPL_B_WITHIN_1", "G_ONE_OF_ABC", "A_IMPL_EVENTUAL_B", "ALMOST_ALWAYS_A", "NOT_A_AT_MOST_TWO", "A_EVERY_THIRD_STEP", "NEXT_FOLLOW", "EVENTUALLY_BOTH", "BOTH_EVENTUAL", "STEPWISE_EQUALITY", "RESPONSE_UNTIL_OR_ALWAYS", "UNTIL_OR_ALWAYS"}

trace_builder(key, L, g) ==
    CASE key = "NOT" ->
           IF g THEN << <<>> >>
                ELSE << <<L[1]>> >>
      [] key = "F_NOT" ->
           IF g THEN << <<L[1]>>, <<>>, <<>> >>
                ELSE << <<L[1]>>, <<L[1]>>, <<L[1]>> >>
      [] key = "G_NOT" ->
           IF g THEN << <<>>, <<>>, <<>> >>
                ELSE << <<L[1]>>, <<>>, <<>> >>
      [] key = "X" ->
           IF g THEN << <<>>, <<L[1]>> >>
                ELSE << <<L[1]>> >>
      [] key = "NOT_A_UNTIL_B" ->
           IF g THEN << <<>>, <<>>, <<L[2]>> >>
                ELSE << <<L[1]>>, <<L[1]>>, <<L[1]>> >>
      [] key = "F_AND" ->
           IF g THEN << <<>>, <<L[1]>>, <<L[1], L[2]>> >>
                ELSE << <<>>, <<L[1]>>, <<>> >>
      [] key = "G_AND" ->
           IF g THEN << <<L[1], L[2]>>, <<L[1], L[2]>>, <<L[1], L[2]>> >>
                ELSE << <<L[1]>>, <<L[1]>>, <<L[2]>> >>
      [] key = "F_OR" ->
           IF g THEN << <<>>, <<L[1]>> >>
                ELSE << <<>>, <<>>, <<>> >>
      [] key = "G_OR" ->
           IF g THEN << <<L[1]>>, <<L[2]>>, <<L[1]>> >>
                ELSE << <<L[1]>>, <<>>, <<>> >>
      [] key = "AND" ->
           IF g THEN << <<L[1], L[2]>> >>
                ELSE << <<L[1]>> >>
      [] key = "OR" ->
           IF g THEN << <<L[1]>> >>
                ELSE << <<>> >>
      [] key = "G_IMPL_F" ->
           IF g THEN << <<L[1]>>, <<>>, <<L[2]>> >>
                ELSE << <<L[1]>>, <<>>, <<>> >>
      [] key = "G_NOT_AND" ->
           IF g THEN << <<L[1]>>, <<L[2]>>, <<>> >>
                ELSE << <<L[1], L[2]>> >>
      [] key = "G_IMPL_XXX" ->
           IF g THEN << <<L[1]>>, <<>>, <<>>, <<L[2]>> >>
                ELSE << <<L[1]>>, <<>>, <<>>, <<>> >>
      [] key = "U_GF" ->
           IF g THEN << <<L[1]>>, <<L[1]>>, <<L[2]>> >>
                ELSE << <<L[1]>>, <<L[1]>>, <<L[1]>> >>
      [] key = "F_B_IMPL_A_BEFORE" ->
           IF g THEN << <<L[1]>>, <<L[2]>> >>
                ELSE << <<L[2]>> >>
      [] key = "G_IMPL" ->
           IF g THEN << <<L[1], L[2]>>, <<L[2]>> >>
                ELSE << <<L[1]>>, <<>> >>
      [] key = "G_AND_PAIR" ->
           IF g THEN << <<L[1], L[2]>> >>
                ELSE << <<L[1]>>, <<>> >>
      [] key = "G_A_AND_G_B_IMPL_NOT_C" ->
           IF g THEN << <<L[1]>>, <<L[1], L[2]>>, <<L[1]>> >>
                ELSE << <<L[1], L[3]>> >>
      [] key = "G_IMPL_F_IMPL_GF" ->
           IF g THEN << <<L[1]>>, <<L[2], L[3]>> >>
                ELSE << <<L[1]>>, <<L[2]>> >>
      [] key = "GF_IMPL_GF" ->
           IF g THEN << <<>> >>
                ELSE << <<L[1]>> >>
      [] key = "GF_OR_GF" ->
           IF g THEN << <<L[1]>> >>
                ELSE << <<>> >>
      [] key = "FG_NOT" ->
           IF g THEN << <<L[1]>>, <<>>, <<>> >>
                ELSE << <<L[1]>>, <<>>, <<L[1]>> >>
      [] key = "G_NOT_AND_IMPL_F" ->
           IF g THEN << <<L[1], L[2]>> >>
                ELSE << <<>> >>
      [] key = "EXCLUSIVE_ALWAYS_ONE" ->
           IF g THEN << <<L[1]>>, <<L[2]>>, <<L[1]>> >>
                ELSE << <<>>, <<>> >>
      [] key = "G_EQ_IMPL_EQ" ->
           IF g THEN << <<L[1], L[2], L[3]>> >>
                ELSE << <<L[1], L[2]>> >>
      [] key = "G_A_IMPL_XG_NOT_B" ->
           IF g THEN << <<L[1]>>, <<>>, <<>> >>
                ELSE << <<L[1]>>, <<>>, <<L[2]>> >>
      [] key = "A_RELEASES_B" ->
           IF g THEN << <<L[2]>> >>
                ELSE << <<L[2]>>, <<>> >>
      [] key = "G_NOT_AND_ALT" ->
           IF g THEN << <<L[1]>>, <<L[2]>>, <<>> >>
                ELSE << <<L[1], L[2]>> >>
      [] key = "TWO_STEP_TRIGGER" ->
           IF g THEN << <<L[1]>>, <<L[2]>>, <<L[3]>> >>
                ELSE << <<L[1]>>, <<L[2]>>, <<>> >>
      [] key = "NEXT_EVENTUAL" ->
           IF g THEN << <<L[1]>>, <<>>, <<L[2]>> >>
                ELSE << <<L[1]>>, <<>>, <<>> >>
      [] key = "EVERY_FIFTH_STEP" ->
           IF g THEN << <<L[1]>>, <<>>, <<>>, <<>>, <<>>, <<L[1]>> >>
                ELSE << <<L[1]>>, <<>>, <<>>, <<L[1]>> >>
      [] key = "GF_A_OR_NEXT_B" ->
           IF g THEN << <<L[1]>> >>
                ELSE << <<>>, <<>> >>
      [] key = "G_ALWAYS_A" ->
           IF g THEN << <<L[1]>> >>
                ELSE << <<L[1]>>, <<>> >>
      [] key = "A_IMPL_B_WITHIN_1" ->
           IF g THEN << <<L[1], L[2]>> >>
                ELSE << <<L[1]>>, <<>> >>
      [] key = "G_ONE_OF_ABC" ->
           IF g THEN << <<L[1]>>, <<L[2]>>, <<L[3]>> >>
                ELSE << <<>> >>
      [] key = "A_IMPL_EVENTUAL_B" ->
           IF g THEN << <<L[1]>>, <<>>, <<L[2]>> >>
                ELSE << <<L[1]>>, <<>>, <<>> >>
      [] key = "ALMOST_ALWAYS_A" ->
           IF g THEN << <<L[1]>>, <<>>, <<L[1]>> >>
                ELSE << <<L[1]>>, <<>>, <<>>, <<>> >>
      [] key = "NOT_A_AT_MOST_TWO" ->
           IF g THEN << <<L[1]>>, <<>>, <<>>, <<L[1]>> >>
                ELSE << <<L[1]>>, <<>>, <<>>, <<>>, <<L[1]>> >>
      [] key = "A_EVERY_THIRD_STEP" ->
           IF g THEN << <<L[1]>>, <<>>, <<>>, <<L[1]>> >>
                ELSE << <<L[1]>>, <<>>, <<L[1]>> >>
      [] key = "NEXT_FOLLOW" ->
           IF g THEN << <<L[1]>>, <<L[2]>> >>
                ELSE << <<L[1]>>, <<>> >>
      [] key = "EVENTUALLY_BOTH" ->
           IF g THEN << <<L[1], L[2]>> >>
                ELSE << <<>>, <<>>, <<>> >>
      [] key = "BOTH_EVENTUAL" ->
           IF g THEN << <<L[1]>>, <<L[2]>> >>
                ELSE << <<>>, <<>>, <<>> >>
      [] key = "STEPWISE_EQUALITY" ->
           IF g THEN << <<L[1]>>, <<L[2]>> >>
                ELSE << <<L[1]>>, <<>> >>
      [] key = "RESPONSE_UNTIL_OR_ALWAYS" ->
           IF g THEN << <<L[2]>>, <<L[3]>>, <<L[3]>>, <<L[1]>> >>
                ELSE << <<L[2]>>, <<>> >>
      [] key = "UNTIL_OR_ALWAYS" ->
           IF g THEN << <<L[1]>>, <<L[1]>>, <<L[2]>> >>
                ELSE << <<>>, <<>> >>

\* GENERIC_TEMPLATES[t](s)
generic_template(t, s) ==
    IF t = 1 THEN "In this task, " \o join(s, ", then ") \o "."
             ELSE "Please " \o join(s, " and then ") \o "."

\* how many templates pick_sentence_template(key) chooses among:
\* SEMANTIC_TEMPLATES.get(key, GENERIC_TEMPLATES)
template_count(key) ==
    IF key \in DOMAIN SEMANTIC_TEMPLATES_count THEN SEMANTIC_TEMPLATES_count[key] ELSE 2

\* pick_sentence_template(key) when random.choice draws the t-th template, applied to s
pick_sentence_template(key, t, s) ==
    IF key \in DOMAIN SEMANTIC_TEMPLATES_count THEN semantic_template(key, t, s)
                                              ELSE generic_template(t, s)

VERB_LIKE_STARTS ==
    {"never", "avoid", "always", "grab", "ensure", "please",
     "eventually", "do", "keep", "ultimately", "make"}

EGO_REFS == <<"The robot", "You", "Our agent", "The system", "This controller">>

_REQUIRES_GERUND ==
    {"avoid", "keep", "stop", "start", "finish", "by", "while", "after", "before", "until"}

\* _PUNCT (the three dashes and the ellipsis are not ASCII; EMDASH stands for the em dash)
_PUNCT == {".", ",", ";", ":", "!", "?", "EMDASH", "-"}

(***************************************************************************)
(* The NLP collaborators (NLTK), modelled at their interface.              *)
(***************************************************************************)
TokPunct == {",", ";", ":", "!", "?"}

\* one blank-separated chunk as word_tokenize splits it: trailing , ; : ! ?
\* become tokens of their own, and so does the period that ends the text
RECURSIVE tokenize_chunk(_, _)
tokenize_chunk(c, last) ==
    IF Len(c) > 1 /\ (Char(c, Len(c)) \in TokPunct \/ (last /\ Char(c, Len(c)) = "."))
    THEN tokenize_chunk(SubSeq(c, 1, Len(c) - 1), FALSE) \o <<Char(c, Len(c))>>
    ELSE <<c>>

word_tokenize(text) ==
    LET cs == split(text)
    IN  concat_seq([k \in 1..Len(cs) |-> tokenize_chunk(cs[k], k = Len(cs))])

\* TreebankWordDetokenizer.detokenize: tokens joined by blanks, a punctuation
\* token attached to the token before it
detokenize(toks) ==
    concat_str([j \in 1..Len(toks) |->
                  IF j > 1 /\ toks[j] \notin TokPunct \cup {"."} THEN " " \o toks[j] ELSE toks[j]])

\* words the part-of-speech tagger never tags VB, VBP, NN or NNS
ClosedClass ==
    {"the", "a", "an", "to", "of", "for", "from", "with", "by", "and", "or", "not",
     "that", "this", "at", "on", "in", "if", "then", "as", "so", "some", "must",
     "both", "either", "neither", "nor", "it", "is", "are", "will", "may", "else",
     "away", "near", "off", "up", "over", "back", "still", "all", "every", "each"}

\* verb lemmas of the WordNet lexicon that the texts of the model can reach
WordNetVerbs ==
    {"locate", "find", "look", "search", "pick", "grab", "retrieve", "collect",
     "deliver", "drop", "hand", "transport", "idle", "wait", "remain", "stand",
     "return", "go", "talk", "communicate", "establish", "give", "provide",
     "record", "begin", "take", "photograph", "avoid", "stay", "do", "call",
     "request", "get", "change", "switch", "set", "update", "hold", "occur",
     "happen", "keep", "release", "end", "persist", "follow", "coincide",
     "last", "help", "box", "step", "point", "aid", "picture", "base", "have"}

\* WordNet's verb suffix rules (MORPHOLOGICAL_SUBSTITUTIONS[VERB]), in order
VerbSubstitutions ==
    << <<"s", "">>, <<"ies", "y">>, <<"es", "e">>, <<"es", "">>,
       <<"ed", "e">>, <<"ed", "">>, <<"ing", "e">>, <<"ing", "">> >>

\* _LEM.lemmatize(w, 'v'): w itself and w with one suffix rule applied, kept
\* when WordNet knows them as verbs; the shortest such form, else w
lemmatize(w) ==
    LET forms == {w} \cup
                 { SubSeq(w, 1, Len(w) - Len(VerbSubstitutions[r][1])) \o VerbSubstitutions[r][2] :
                     r \in {r \in 1..Len(VerbSubstitutions) : endswith(w, VerbSubstitutions[r][1])} }
        known == forms \cap WordNetVerbs
    IN  IF known = {} THEN w
        ELSE CHOOSE f \in known : \A g \in known : Len(f) <= Len(g)

\* _same_word(sent_tok, targ_tok)
_same_word(sent_tok, targ_tok) ==
    LET s == lower(rstrip_punct(sent_tok))
        t == lower(targ_tok)
    IN  s = t \/ lemmatize(s) = t

(***************************************************************************)
(* Sentence utilities.                                                     *)
(***************************************************************************)
is_vowel(c) == c \in {"a", "e", "i", "o", "u"}

\* _to_gerund(word)
_to_gerund(word) ==
    IF endswith(word, "ie") THEN SubSeq(word, 1, Len(word) - 2) \o "ying"
    ELSE IF endswith(word, "e") /\ ~endswith(word, "ee") THEN SubSeq(word, 1, Len(word) - 1) \o "ing"
    ELSE IF /\ Len(word) > 2
            /\ is_vowel(Char(word, Len(word) - 1))
            /\ ~(is_vowel(Char(word, Len(word))) \/ Char(word, Len(word)) \in {"y", "w", "x"})
         THEN word \o "ing"
    ELSE word \o "ing"

\* re.sub(r"[^a-zA-Z]", "", s)
RECURSIVE letters_only(_)
letters_only(s) ==
    IF Len(s) <= 1
    THEN (IF s \in (DOMAIN LowerOf) \cup (DOMAIN UpperOf) THEN s ELSE "")
    ELSE letters_only(SubSeq(s, 1, Len(s) \div 2))
         \o letters_only(SubSeq(s, Len(s) \div 2 + 1, Len(s)))

\* add_ego_reference(sentence, ego)
add_ego_reference(sentence, ego) ==
    LET first == lower(letters_only(split(sentence)[1]))
    IN  IF first \in VERB_LIKE_STARTS THEN ego \o " must " \o sentence ELSE sentence

\* correct_sentence, the inner while of lines 660-662: the first index after i
\* whose token is not in _PUNCT (Len(toks) + 1 when there is none)
RECURSIVE skip_punct(_, _)
skip_punct(toks, j) ==
    IF j <= Len(toks) /\ toks[j] \in _PUNCT THEN skip_punct(toks, j + 1) ELSE j

\* the positions the gerund rule may rewrite: the token after a trigger word,
\* unless it is a placeholder or already ends in "ing"
gerund_positions(toks) ==
    LET triggers == {i \in 1..(Len(toks) - 1) : lower(toks[i]) \in _REQUIRES_GERUND}
        nexts    == {skip_punct(toks, i + 1) : i \in triggers} \cap (1..Len(toks))
    IN  { j \in nexts : /\ ~PLACEHOLDER_RE_match(toks[j])
                        /\ ~endswith(lower(toks[j]), "ing") }

\* the positions among them that pos_tag may or may not tag VB, VBP, NN or NNS
taggable_positions(toks) ==
    { j \in gerund_positions(toks) : lower(toks[j]) \notin ClosedClass }

\* lines 656-680 on the tokens toks, gerunds being the positions the gerund
\* rule rewrites: gerund agreement, "i" -> "I", capitalisation
correct_tokens(toks, gerunds) ==
    [j \in 1..Len(toks) |->
       LET t1 == IF j \in gerunds THEN _to_gerund(lower(toks[j])) ELSE toks[j]
           t2 == IF t1 = "i" THEN "I" ELSE t1
           t3 == IF j = 1 THEN capitalize(t2) ELSE t2
       \* lines 678-680: a token ".", "!" or "?" is in _PUNCT, so none of the
       \* earlier rewrites has touched it
       IN  IF j > 1 /\ toks[j - 1] \in {".", "!", "?"} THEN capitalize(t3) ELSE t3]

\* correct_sentence(sentence) when pos_tag tags VB, VBP, NN or NNS exactly the
\* tokens at the positions of tagged
correct_sentence_toks(toks, tagged) ==
    detokenize(correct_tokens(toks, gerund_positions(toks) \cap tagged))

correct_sentence(sentence, tagged) == correct_sentence_toks(word_tokenize(sentence), tagged)

(***************************************************************************)
(* Trace synthesiser.                                                      *)
(***************************************************************************)
_make_traces_one_empty_moment(key, labels) ==
    IF key \in TRACE_BUILDERS_keys
    THEN <<trace_builder(key, labels, TRUE), trace_builder(key, labels, FALSE)>>
    ELSE << <<labels>>, << <<>> >> >>

\* _make_traces(key, labels): <<good, bad>>
_make_traces(key, labels) ==
    IF key \in TRACE_BUILDERS_keys
    THEN <<trace_builder(key, labels, TRUE), trace_builder(key, labels, FALSE)>>
    ELSE << <<labels>>, << <<>>, <<>>, <<>> >> >>

viable_any_smaller(arity) ==
    {k \in 1..Len(LTL_TEMPLATES_STATE) : LTL_TEMPLATES_STATE[k][2] <= arity}

(***************************************************************************)
(* build_entry_for_props.  props is the ordered mapping label -> info as a *)
(* sequence of records [lbl, info]; info has the fields action_canon,      *)
(* action_ref, args_canon, args_ref.                                       *)
(***************************************************************************)
\* the skeletons random.choice(viable) can return, as indices of LTL_TEMPLATES_STATE
viable(arity) ==
    LET exact == {k \in 1..Len(LTL_TEMPLATES_STATE) : LTL_TEMPLATES_STATE[k][2] = arity}
    IN  IF exact # {} THEN exact
        ELSE {k \in 1..Len(LTL_TEMPLATES_STATE) : LTL_TEMPLATES_STATE[k][2] <= arity}

\* _nl_segment(info)
_nl_segment(info, actions_cfg) ==
    LET params == actions_cfg[info.action_canon]
        v_ref  == info.action_ref
    IN  IF Len(params) = 0 THEN v_ref
        ELSE IF params \in {<<"item">>, <<"person">>, <<"threat">>, <<"target">>}
             THEN v_ref \o " the " \o info.args_ref[1]
        ELSE IF params = <<"item", "location">>
             THEN v_ref \o " the " \o info.args_ref[1] \o " to the " \o info.args_ref[2]
        ELSE IF params = <<"traffic_target", "lane">>
             THEN LET lane == info.args_ref[2]
                      prep == IF \E k \in {"street", "avenue", "road"} : contains(lane, k)
                              THEN "on" ELSE "at"
                  IN  v_ref \o " the " \o info.args_ref[1] \o " " \o prep \o " " \o lane
        ELSE v_ref \o " " \o join(info.args_ref, " ")

reground_appends_ing(info, g_raw) ==
    LET bare == split(info.action_ref)[1]
        ger  == _to_gerund(bare)
    IN  IF ~contains(g_raw, bare) /\ contains(g_raw, ger)
        THEN [info EXCEPT !.action_ref = bare \o "ing"]
        ELSE info

\* lines 770-774: the gerund re-grounding of one proposition against g_raw
reground(info, g_raw) ==
    LET bare == split(info.action_ref)[1]
        ger  == _to_gerund(bare)
    IN  IF ~contains(g_raw, bare) /\ contains(g_raw, ger)
        THEN [info EXCEPT !.action_ref = ger]
        ELSE info

\* _segment_tokens(lbl) for the proposition info, when pos_tag tags as tagged
_segment_tokens(info, actions_cfg, tagged) ==
    LET seg_txt == correct_sentence(_nl_segment(info, actions_cfg), tagged)
        toks    == word_tokenize(lower(seg_txt))
        kept    == SelectSeq(toks, LAMBDA t : ~contains(string_punctuation, t))
    IN  [j \in 1..Len(kept) |-> rstrip_punct(kept[j])]

\* the test of lines 805-807: segment tok_seq matches g_tok at position i (1-based)
span_matches(g_tok, i, tok_seq) ==
    /\ i - 1 + Len(tok_seq) <= Len(g_tok)
    /\ \A j \in 1..Len(tok_seq) : _same_word(g_tok[i + j - 1], tok_seq[j])

\* the for of lines 802-814: the first label (in labels_used order) whose
\* segment matches at i, 0 when none does
first_match(g_tok, i, seg_tokens) ==
    LET hits == {l \in 1..Len(seg_tokens) : span_matches(g_tok, i, seg_tokens[l])}
    IN  IF hits = {} THEN 0 ELSE CHOOSE l \in hits : \A m \in hits : l <= m

RECURSIVE align_first_position_only(_, _, _, _, _)
align_first_position_only(g_tok, seg_tokens, i, ids, masked) ==
    IF i > Len(g_tok) THEN [ids |-> ids, masked |-> masked, stuck |-> FALSE]
    ELSE LET l == first_match(g_tok, i, seg_tokens)
         IN  IF l = 0
             THEN align_first_position_only(g_tok, seg_tokens, i + 1, ids, Append(masked, g_tok[i]))
             ELSE IF Len(seg_tokens[l]) = 0
             THEN [ids |-> ids, masked |-> Append(masked, prop_tok(l)), stuck |-> TRUE]
             ELSE align_first_position_only(g_tok, seg_tokens, i + Len(seg_tokens[l]),
                        [p \in 1..Len(ids) |-> IF p = i THEN l ELSE ids[p]],
                        Append(masked, prop_tok(l)))

RECURSIVE align_keeps_words(_, _, _, _, _)
align_keeps_words(g_tok, seg_tokens, i, ids, masked) ==
    IF i > Len(g_tok) THEN [ids |-> ids, masked |-> masked, stuck |-> FALSE]
    ELSE LET l == first_match(g_tok, i, seg_tokens)
         IN  IF l = 0
             THEN align_keeps_words(g_tok, seg_tokens, i + 1, ids, Append(masked, g_tok[i]))
             ELSE IF Len(seg_tokens[l]) = 0
             THEN [ids |-> ids, masked |-> Append(masked, prop_tok(l)), stuck |-> TRUE]
             ELSE align_keeps_words(g_tok, seg_tokens, i + Len(seg_tokens[l]),
                        [p \in 1..Len(ids) |->
                           IF p >= i /\ p < i + Len(seg_tokens[l]) THEN l ELSE ids[p]],
                        Append(masked, g_tok[i]))

\* the while of lines 799-817 from position i on.  pid_map[lbl] is the index of
\* lbl in labels_used, mapping[lbl] is prop_<index>.  A matching segment of no
\* tokens leaves i unchanged: the loop then never ends (stuck).
RECURSIVE align(_, _, _, _, _)
align(g_tok, seg_tokens, i, ids, masked) ==
    IF i > Len(g_tok) THEN [ids |-> ids, masked |-> masked, stuck |-> FALSE]
    ELSE LET l == first_match(g_tok, i, seg_tokens)
         IN  IF l = 0
             THEN align(g_tok, seg_tokens, i + 1, ids, Append(masked, g_tok[i]))
             ELSE IF Len(seg_tokens[l]) = 0
             THEN [ids |-> ids, masked |-> Append(masked, prop_tok(l)), stuck |-> TRUE]
             ELSE align(g_tok, seg_tokens, i + Len(seg_tokens[l]),
                        [p \in 1..Len(ids) |->
                           IF p >= i /\ p < i + Len(seg_tokens[l]) THEN l ELSE ids[p]],
                        Append(masked, prop_tok(l)))

mapping_get_identity(labels_used, t) == t

\* mapping.get(t, t) of line 826, mapping being {labels_used[i] -> prop_<i>}
mapping_get(labels_used, t) ==
    IF \E i \in 1..Len(labels_used) : labels_used[i] = t
    THEN prop_tok(CHOOSE i \in 1..Len(labels_used) : labels_used[i] = t)
    ELSE t

\* build_entry_for_props(idx, props, actions_cfg) when the random draws pick
\* skeleton number tpl_k of LTL_TEMPLATES_STATE, sentence template t and ego
\* reference ego_k, and pos_tag tags as tagged in the sentence and as
\* seg_tagged[l] in the l-th segment.  Returns the entry, props as the call
\* leaves it, the skeleton name and whether the alignment loop got stuck.
build_entry_for_props(idx, props0, actions_cfg, tpl_k, t, ego_k, tagged, seg_tagged) ==
    LET key         == LTL_TEMPLATES_STATE[tpl_k][1]
        need        == LTL_TEMPLATES_STATE[tpl_k][2]
        n_used      == IF need <= Len(props0) THEN need ELSE Len(props0)
        labels_used == [i \in 1..n_used |-> props0[i].lbl]
        g_ltl       == skeleton(key, [i \in 1..n_used |-> _atom(props0[i].info)])
        m_ltl       == skeleton(key, labels_used)
        segs0       == [i \in 1..n_used |-> _nl_segment(props0[i].info, actions_cfg)]
        g_raw       == correct_sentence(
                         add_ego_reference(pick_sentence_template(key, t, segs0), EGO_REFS[ego_k]),
                         tagged)
        g_tok       == split(g_raw)
        props1      == [i \in 1..Len(props0) |->
                          [lbl |-> props0[i].lbl, info |-> reground(props0[i].info, g_raw)]]
        seg_tokens  == [i \in 1..n_used |->
                          _segment_tokens(props1[i].info, actions_cfg, seg_tagged[i])]
        al          == align(g_tok, seg_tokens, 1, [p \in 1..Len(g_tok) |-> 0], <<>>)
        traces      == _make_traces(key, [i \in 1..n_used |-> _atom(props1[i].info)])
    IN  [ entry |->
            [ id                       |-> idx,
              sentence                 |-> g_tok,
              tl                       |-> g_ltl,
              masked_tl                |-> [j \in 1..Len(m_ltl) |-> mapping_get(labels_used, m_ltl[j])],
              grounded_sentence        |-> al.masked,
              lifted_sentence_prop_ids |-> al.ids,
              prop_dict                |-> [i \in 1..n_used |->
                                              [key |-> prop_tok(i), info |-> props1[i].info]],
              good_trace               |-> traces[1],
              bad_trace                |-> traces[2] ],
          props |-> props1,
          key   |-> key,
          stuck |-> al.stuck ]

(***************************************************************************)
(* Validator.                                                              *)
(***************************************************************************)
_entry_is_valid_accepts_all(e) == TRUE

_entry_is_valid_ids_only(e) ==
    (1..Len(e.prop_dict)) \subseteq Range(e.lifted_sentence_prop_ids)

\* _entry_is_valid(entry)
_entry_is_valid(e) ==
    LET n_props       == Len(e.prop_dict)
        required_ids  == 1..n_props
        required_toks == {prop_tok(i) : i \in required_ids}
    IN  IF ~(required_ids \subseteq Range(e.lifted_sentence_prop_ids)) THEN FALSE
        ELSE IF ~(required_toks \subseteq Range(e.grounded_sentence)) THEN FALSE
        ELSE TRUE

(***************************************************************************)
(* build_dataset_entries: the dataset driver.                              *)
(***************************************************************************)
\* the size of the largest dataset requested
MaxEntries == 1

\* the default of max_props, which main() relies on
DefaultMaxProps == 3

\* the attempts of range(50) for one label
MaxAttempts == 50

label_pool(mp) == [i \in 1..mp |-> prop_tok(i)]

\* random.sample(label_pool, k): the orderings of k distinct labels
random_sample(pool, k) ==
    { q \in [1..k -> Range(pool)] : \A i, j \in 1..k : i # j => q[i] # q[j] }

NoEntry ==
    [ id |-> -1, sentence |-> <<>>, tl |-> <<>>, masked_tl |-> <<>>,
      grounded_sentence |-> <<>>, lifted_sentence_prop_ids |-> <<>>,
      prop_dict |-> <<>>, good_trace |-> <<>>, bad_trace |-> <<>> ]

\* probe records what the last call of build_entry_for_props chose: the
\* skeleton name and the propositions handed to it
NoProbe == [key |-> "", handed |-> <<>>, wanted |-> 0]

\* call holds the arguments and the result of a function that is called on
\* its own (outside the driver)
NoCall == [fn |-> "", arg |-> <<>>, ret |-> <<>>]

\* lines 760-764 before correct_sentence: the sentence with its ego reference
raw_sentence(props0, actions_cfg, tpl_k, t, ego_k) ==
    LET key    == LTL_TEMPLATES_STATE[tpl_k][1]
        need   == LTL_TEMPLATES_STATE[tpl_k][2]
        n_used == IF need <= Len(props0) THEN need ELSE Len(props0)
        segs0  == [i \in 1..n_used |-> _nl_segment(props0[i].info, actions_cfg)]
    IN  add_ego_reference(pick_sentence_template(key, t, segs0), EGO_REFS[ego_k])

\* the draws of random.choice(EGO_REFS) that can differ in their result: all of
\* them when add_ego_reference uses the ego reference, one otherwise
ego_draws(props0, actions_cfg, tpl_k, t) ==
    IF raw_sentence(props0, actions_cfg, tpl_k, t, 1) = raw_sentence(props0, actions_cfg, tpl_k, t, 2)
    THEN {1} ELSE 1..Len(EGO_REFS)

\* pos_tag outcomes for the sentence of a build
sentence_taggings(raw) == SUBSET taggable_positions(word_tokenize(raw))

\* pos_tag outcomes for the segments of a build (segments are tagged after
\* the re-grounding, one call of correct_sentence per segment)
segment_taggings(props0, actions_cfg, n_used, raw, tagged) ==
    LET g_raw  == correct_sentence(raw, tagged)
        cand   == [i \in 1..n_used |->
                     SUBSET taggable_positions(word_tokenize(
                        _nl_segment(reground(props0[i].info, g_raw), actions_cfg)))]
    IN  { st \in [1..n_used -> UNION Range(cand)] : \A i \in 1..n_used : st[i] \in cand[i] }

Init ==
    /\ scenario = ScenarioOneAtom
    /\ num_entries \in 0..MaxEntries
    /\ max_props = DefaultMaxProps
    /\ dataset = <<>>
    /\ pc = "loop"
    /\ want_labels = <<>>
    /\ lbl_i = 0
    /\ attempt = 0
    /\ props = <<>>
    /\ atoms_used = {}
    /\ entry = NoEntry
    /\ probe = NoProbe
    /\ call = NoCall

\* lines 946-950: the loop test holds; draw the labels, reset props and atoms_used
SampleLabels ==
    /\ pc = "loop"
    /\ Len(dataset) < num_entries
    /\ \E k \in 1..max_props : want_labels' \in random_sample(label_pool(max_props), k)
    /\ props' = <<>>
    /\ atoms_used' = {}
    /\ lbl_i' = 1
    /\ attempt' = 0
    /\ pc' = "attempt"
    /\ UNCHANGED <<call, scenario, num_entries, max_props, dataset, entry, probe>>

atom_is_used_always_fresh(atom, used) == FALSE

\* line 962: if atom in atoms_used: continue
atom_is_used(atom, used) == atom \in used

\* lines 954-972: one attempt for the label want_labels[lbl_i]
Attempt ==
    /\ pc = "attempt"
    /\ lbl_i <= Len(want_labels)
    /\ attempt < MaxAttempts
    /\ LET actions_dict == actions_dict_of(scenario)
       IN  \E verb \in DOMAIN actions_dict :
           \E args \in sample_arguments(scenario.actions_cfg[verb], scenario.objects, scenario.locs) :
             LET atom == atom_string(verb, args[1])
             IN  IF atom_is_used(atom, atoms_used)
                 THEN /\ attempt' = attempt + 1
                      /\ UNCHANGED <<props, atoms_used, lbl_i>>
                 ELSE \E r \in 1..Len(actions_dict[verb]) :
                      /\ atoms_used' = atoms_used \cup {atom}
                      /\ props' = Append(props,
                                    [ lbl  |-> want_labels[lbl_i],
                                      info |-> [ action_canon |-> verb,
                                                 action_ref   |-> actions_dict[verb][r],
                                                 args_canon   |-> args[1],
                                                 args_ref     |-> args[2] ] ])
                      /\ lbl_i' = lbl_i + 1
                      /\ attempt' = 0
    /\ UNCHANGED <<call, scenario, num_entries, max_props, dataset, pc, want_labels, entry, probe>>

\* line 954: range(50) is exhausted without a break; on to the next label
Exhaust ==
    /\ pc = "attempt"
    /\ lbl_i <= Len(want_labels)
    /\ attempt = MaxAttempts
    /\ lbl_i' = lbl_i + 1
    /\ attempt' = 0
    /\ UNCHANGED <<call, scenario, num_entries, max_props, dataset, pc, want_labels, props, atoms_used, entry, probe>>

\* lines 975-976: all labels done; build the entry
Build ==
    /\ pc = "attempt"
    /\ lbl_i > Len(want_labels)
    /\ \E tpl_k \in viable(Len(props)) :
       \E t \in 1..template_count(LTL_TEMPLATES_STATE[tpl_k][1]) :
       \E ego_k \in ego_draws(props, scenario.actions_cfg, tpl_k, t) :
       \E tagged \in sentence_taggings(raw_sentence(props, scenario.actions_cfg, tpl_k, t, ego_k)) :
       \E seg_tagged \in segment_taggings(props, scenario.actions_cfg, LTL_TEMPLATES_STATE[tpl_k][2],
                                          raw_sentence(props, scenario.actions_cfg, tpl_k, t, ego_k),
                                          tagged) :
         LET b == build_entry_for_props(Len(dataset), props, scenario.actions_cfg,
                                        tpl_k, t, ego_k, tagged, seg_tagged)
         IN  /\ ~b.stuck
             /\ entry' = b.entry
             /\ props' = b.props
             /\ probe' = [key |-> b.key, handed |-> props, wanted |-> Len(want_labels)]
    /\ pc' = "validate"
    /\ UNCHANGED <<call, scenario, num_entries, max_props, dataset, want_labels, lbl_i, attempt, atoms_used>>

Validate_never_appends ==
    /\ pc = "validate"
    /\ pc' = "loop"
    /\ want_labels' = <<>>
    /\ lbl_i' = 0
    /\ attempt' = 0
    /\ props' = <<>>
    /\ atoms_used' = {}
    /\ entry' = NoEntry
    /\ probe' = NoProbe
    /\ UNCHANGED <<call, scenario, num_entries, max_props, dataset>>

Validate_keeps_rejected ==
    /\ pc = "validate"
    /\ dataset' = Append(dataset, entry)
    /\ pc' = "loop"
    /\ want_labels' = <<>>
    /\ lbl_i' = 0
    /\ attempt' = 0
    /\ props' = <<>>
    /\ atoms_used' = {}
    /\ entry' = NoEntry
    /\ probe' = NoProbe
    /\ UNCHANGED <<call, scenario, num_entries, max_props>>

\* lines 978-980: keep the entry when it is valid, drop it otherwise; the
\* locals of the iteration are dead from here on (the next iteration rebinds
\* each of them before reading it)
Validate ==
    /\ pc = "validate"
    /\ dataset' = IF _entry_is_valid(entry) THEN Append(dataset, entry) ELSE dataset
    /\ pc' = "loop"
    /\ want_labels' = <<>>
    /\ lbl_i' = 0
    /\ attempt' = 0
    /\ props' = <<>>
    /\ atoms_used' = {}
    /\ entry' = NoEntry
    /\ probe' = NoProbe
    /\ UNCHANGED <<call, scenario, num_entries, max_props>>

Return_before_count_reached ==
    /\ pc = "loop"
    /\ dataset' = [i \in 1..Len(dataset) |-> [dataset[i] EXCEPT !.id = i - 1]]
    /\ pc' = "done"
    /\ UNCHANGED <<call, scenario, num_entries, max_props, want_labels, lbl_i, attempt, props, atoms_used, entry, probe>>

\* lines 983-986: the loop test fails; renumber and return
Return ==
    /\ pc = "loop"
    /\ ~(Len(dataset) < num_entries)
    /\ dataset' = [i \in 1..Len(dataset) |-> [dataset[i] EXCEPT !.id = i - 1]]
    /\ pc' = "done"
    /\ UNCHANGED <<call, scenario, num_entries, max_props, want_labels, lbl_i, attempt, props, atoms_used, entry, probe>>

Next == SampleLabels \/ Attempt \/ Exhaust \/ Build \/ Validate \/ Return

Spec == Init /\ [][Next]_vars

\* the same driver over a vocabulary with two distinct atoms: one entry asked,
\* max_props passed as 2
InitTwoAtoms ==
    /\ scenario = ScenarioTwoAtoms
    /\ num_entries = 1
    /\ max_props = 2
    /\ dataset = <<>>
    /\ pc = "loop"
    /\ want_labels = <<>>
    /\ lbl_i = 0
    /\ attempt = 0
    /\ props = <<>>
    /\ atoms_used = {}
    /\ entry = NoEntry
    /\ probe = NoProbe
    /\ call = NoCall

SpecTwoAtoms == InitTwoAtoms /\ [][Next]_vars

\* a vocabulary with a verb whose parameter kind _sample_argument does not know
ScenarioUnknownKind ==
    [ actions_cfg |-> [photo |-> <<"target">>, record |-> <<"item">>],
      objects     |-> << <<"box", <<"box">>>> >>,
      locs        |-> <<>> ]

\* lines 955-959: the verb drawn has a parameter for which _sample_argument
\* (or the random.choice in it) raises; nothing catches the exception, so
\* build_dataset_entries ends without returning
Raise ==
    /\ pc = "attempt"
    /\ lbl_i <= Len(want_labels)
    /\ attempt < MaxAttempts
    /\ \E verb \in DOMAIN actions_dict_of(scenario) :
         sample_arguments(scenario.actions_cfg[verb], scenario.objects, scenario.locs) = {}
    /\ pc' = "raised"
    /\ UNCHANGED <<call, scenario, num_entries, max_props, dataset, want_labels, lbl_i, attempt,
                   props, atoms_used, entry, probe>>

InitUnknownKind ==
    /\ scenario = ScenarioUnknownKind
    /\ num_entries = 1
    /\ max_props = 2
    /\ dataset = <<>>
    /\ pc = "loop"
    /\ want_labels = <<>>
    /\ lbl_i = 0
    /\ attempt = 0
    /\ props = <<>>
    /\ atoms_used = {}
    /\ entry = NoEntry
    /\ probe = NoProbe
    /\ call = NoCall

NextUnknownKind == SampleLabels \/ Attempt \/ Exhaust \/ Raise \/ Build \/ Validate \/ Return

SpecUnknownKind == InitUnknownKind /\ [][NextUnknownKind]_vars

\* the largest count requested of the driver when max_props is passed as 1
MaxCount == 2

\* the driver over the one-atom vocabulary with max_props passed as 1, for
\* datasets of several entries
InitCount ==
    /\ scenario = ScenarioOneAtom
    /\ num_entries \in 0..MaxCount
    /\ max_props = 1
    /\ dataset = <<>>
    /\ pc = "loop"
    /\ want_labels = <<>>
    /\ lbl_i = 0
    /\ attempt = 0
    /\ props = <<>>
    /\ atoms_used = {}
    /\ entry = NoEntry
    /\ probe = NoProbe
    /\ call = NoCall

\* with one label per entry atoms_used is empty at the first attempt, which
\* therefore succeeds: range(50) is never exhausted
NextCount == SampleLabels \/ Attempt \/ Build \/ Validate \/ Return

SpecCount == InitCount /\ [][NextCount]_vars

(***************************************************************************)
(* _make_traces called on its own, for every skeleton of the catalog and    *)
(* lists of pairwise-distinct atoms.                                        *)
(***************************************************************************)
TraceAtoms == <<"idle", "record(box)", "deliver(box,shelf)", "get_help">>

\* the lists of n pairwise-distinct atoms
atom_lists(n) ==
    { q \in [1..n -> Range(TraceAtoms)] : \A i, j \in 1..n : i # j => q[i] # q[j] }

InitTrace ==
    /\ scenario = ScenarioOneAtom
    /\ num_entries = 0
    /\ max_props = DefaultMaxProps
    /\ dataset = <<>>
    /\ pc = "trace"
    /\ want_labels = <<>>
    /\ lbl_i = 0
    /\ attempt = 0
    /\ props = <<>>
    /\ atoms_used = {}
    /\ entry = NoEntry
    /\ probe = NoProbe
    /\ \E k \in 1..Len(LTL_TEMPLATES_STATE) :
       \E labels \in atom_lists(LTL_TEMPLATES_STATE[k][2]) :
         call = [fn |-> "_make_traces", arg |-> <<LTL_TEMPLATES_STATE[k][1], labels>>, ret |-> <<>>]

\* line 820: good_trace, bad_trace = _make_traces(key, atoms)
MakeTraces ==
    /\ pc = "trace"
    /\ call' = [call EXCEPT !.ret = _make_traces(call.arg[1], call.arg[2])]
    /\ pc' = "traced"
    /\ UNCHANGED <<scenario, num_entries, max_props, dataset, want_labels, lbl_i, attempt,
                   props, atoms_used, entry, probe>>

NextTrace == MakeTraces

SpecTrace == InitTrace /\ [][NextTrace]_vars

(***************************************************************************)
(* LTL over the formula tokens of the skeletons.  Unary operators bind      *)
(* tightest, then until, and, or, implies, double_implies; a trace is read  *)
(* as the infinite word that repeats its last moment forever, and an atom   *)
(* that a moment does not list is false there.                              *)
(***************************************************************************)
LTL_UNARY == {"not", "next", "globally", "finally"}

\* binary operators, loosest first
LTL_BINARY == <<"double_implies", "implies", "or", "and", "until">>

\* open parentheses of tok[lo..k-1] that are not closed there
paren_depth(tok, lo, k) ==
    Cardinality({j \in lo..(k - 1) : tok[j] = "("}) - Cardinality({j \in lo..(k - 1) : tok[j] = ")"})

\* tok[lo] and tok[hi] are one pair of parentheses
wrapped(tok, lo, hi) ==
    /\ lo < hi
    /\ tok[lo] = "("
    /\ tok[hi] = ")"
    /\ \A k \in (lo + 1)..hi : paren_depth(tok, lo, k) >= 1

\* positions of op in tok[lo..hi] outside every parenthesis
top_level(tok, lo, hi, op) ==
    {k \in lo..hi : tok[k] = op /\ paren_depth(tok, lo, k) = 0}

Min(S) == CHOOSE x \in S : \A y \in S : x <= y

RECURSIVE ltl_parse(_, _, _)
ltl_parse(tok, lo, hi) ==
    IF lo > hi THEN <<"error">>
    ELSE IF wrapped(tok, lo, hi) THEN ltl_parse(tok, lo + 1, hi - 1)
    ELSE LET found == {b \in 1..Len(LTL_BINARY) : top_level(tok, lo, hi, LTL_BINARY[b]) # {}}
         IN  IF found # {}
             THEN LET op == LTL_BINARY[Min(found)]
                      k  == Min(top_level(tok, lo, hi, op))
                  IN  <<op, ltl_parse(tok, lo, k - 1), ltl_parse(tok, k + 1, hi)>>
             ELSE IF tok[lo] \in LTL_UNARY THEN <<tok[lo], ltl_parse(tok, lo + 1, hi)>>
             ELSE IF lo = hi /\ tok[lo] \notin {"(", ")"} THEN <<"atom", tok[lo]>>
             ELSE <<"error">>

\* f holds at moment i of the word that repeats the last moment of w
RECURSIVE ltl_sat(_, _, _)
ltl_sat(f, w, i) ==
    LET n    == Len(w)
        succ == IF i < n THEN i + 1 ELSE n
    IN  CASE f[1] = "atom"           -> \E a \in 1..Len(w[i]) : w[i][a] = f[2]
          [] f[1] = "not"            -> ~ltl_sat(f[2], w, i)
          [] f[1] = "next"           -> ltl_sat(f[2], w, succ)
          [] f[1] = "globally"       -> \A j \in i..n : ltl_sat(f[2], w, j)
          [] f[1] = "finally"        -> \E j \in i..n : ltl_sat(f[2], w, j)
          [] f[1] = "and"            -> ltl_sat(f[2], w, i) /\ ltl_sat(f[3], w, i)
          [] f[1] = "or"             -> ltl_sat(f[2], w, i) \/ ltl_sat(f[3], w, i)
          [] f[1] = "implies"        -> ltl_sat(f[2], w, i) => ltl_sat(f[3], w, i)
          [] f[1] = "double_implies" -> ltl_sat(f[2], w, i) <=> ltl_sat(f[3], w, i)
          [] f[1] = "until"          -> \E j \in i..n :
                                          /\ ltl_sat(f[3], w, j)
                                          /\ \A k \in i..(j - 1) : ltl_sat(f[2], w, k)

\* the trace w satisfies the formula tokens tok at moment 0
satisfies(w, tok) == Len(w) > 0 /\ ltl_sat(ltl_parse(tok, 1, Len(tok)), w, 1)

\* the skeleton has a rule in _TRACE_BUILDERS
has_rule(key) == key \in TRACE_BUILDERS_keys

\* C4: for every skeleton with a rule in _TRACE_BUILDERS and every list of
\* pairwise-distinct atoms, the good trace of _make_traces satisfies the
\* formula of the skeleton at moment 0.
GoodTraceSatisfies ==
    (pc = "traced" /\ has_rule(call.arg[1])) =>
        satisfies(call.ret[1], skeleton(call.arg[1], call.arg[2]))

\* a good trace of a rule that does not satisfy its formula
GoodTraceFails ==
    /\ pc = "traced"
    /\ has_rule(call.arg[1])
    /\ ~satisfies(call.ret[1], skeleton(call.arg[1], call.arg[2]))

\* C5: for every skeleton with a rule in _TRACE_BUILDERS and every list of
\* pairwise-distinct atoms, the bad trace of _make_traces does not satisfy
\* the formula of the skeleton at moment 0.
BadTraceViolates ==
    (pc = "traced" /\ has_rule(call.arg[1])) =>
        ~satisfies(call.ret[2], skeleton(call.arg[1], call.arg[2]))

\* a bad trace of a rule that satisfies its formula
BadTraceSatisfies ==
    /\ pc = "traced"
    /\ has_rule(call.arg[1])
    /\ satisfies(call.ret[2], skeleton(call.arg[1], call.arg[2]))

(***************************************************************************)
(* build_entry_for_props called by the driver on sampled propositions of a  *)
(* three-verb vocabulary: the runs start where the sampling of lines        *)
(* 949-972 has ended.                                                       *)
(***************************************************************************)
ScenarioThreeAtoms ==
    [ actions_cfg |-> [deliver |-> <<"item", "location">>, get_help |-> <<>>, record |-> <<"item">>],
      objects     |-> << <<"box", <<"box">>>> >>,
      locs        |-> <<"shelf">> ]

\* one sampled proposition per verb of ScenarioThreeAtoms
SampledInfos ==
    { [action_canon |-> "deliver",  action_ref |-> "deliver",
       args_canon |-> <<"box", "shelf">>, args_ref |-> <<"box", "shelf">>],
      [action_canon |-> "record",   action_ref |-> "take a video of",
       args_canon |-> <<"box">>, args_ref |-> <<"box">>],
      [action_canon |-> "get_help", action_ref |-> "get help",
       args_canon |-> <<>>, args_ref |-> <<>>] }

\* the props dicts of k of these propositions under k labels, in every order
sampled_props(k) ==
    { [i \in 1..k |-> [lbl |-> ls[i], info |-> fs[i]]] :
        ls \in random_sample(label_pool(DefaultMaxProps), k),
        fs \in { q \in [1..k -> SampledInfos] : \A i, j \in 1..k : i # j => q[i] # q[j] } }

InitEntry ==
    /\ scenario = ScenarioThreeAtoms
    /\ num_entries = 1
    /\ max_props = DefaultMaxProps
    /\ dataset = <<>>
    /\ pc = "attempt"
    /\ \E k \in 1..DefaultMaxProps : props \in sampled_props(k)
    /\ want_labels = [i \in 1..Len(props) |-> props[i].lbl]
    /\ lbl_i = Len(props) + 1
    /\ attempt = 0
    /\ atoms_used = {_atom(props[i].info) : i \in 1..Len(props)}
    /\ entry = NoEntry
    /\ probe = NoProbe
    /\ call = NoCall

NextEntry == Build \/ Validate

SpecEntry == InitEntry /\ [][NextEntry]_vars

(***************************************************************************)
(* build_entry_for_props called by the driver with max_props passed as 4,   *)
(* on one to four sampled propositions: with four of them no skeleton has   *)
(* their count as its arity.                                                *)
(***************************************************************************)
ScenarioFourAtoms ==
    [ actions_cfg |-> [deliver |-> <<"item", "location">>, get_help |-> <<>>,
                       idle |-> <<>>, record |-> <<"item">>],
      objects     |-> << <<"box", <<"box">>>> >>,
      locs        |-> <<"shelf">> ]

\* four sampled propositions of ScenarioFourAtoms, in the order of their sampling
SampledFour ==
    << [action_canon |-> "idle",     action_ref |-> "wait",
        args_canon |-> <<>>, args_ref |-> <<>>],
       [action_canon |-> "record",   action_ref |-> "record",
        args_canon |-> <<"box">>, args_ref |-> <<"box">>],
       [action_canon |-> "get_help", action_ref |-> "request assistance",
        args_canon |-> <<>>, args_ref |-> <<>>],
       [action_canon |-> "deliver",  action_ref |-> "transport",
        args_canon |-> <<"box", "shelf">>, args_ref |-> <<"box", "shelf">>] >>

InitSelect ==
    /\ scenario = ScenarioFourAtoms
    /\ num_entries = 1
    /\ max_props = 4
    /\ dataset = <<>>
    /\ pc = "attempt"
    /\ \E k \in 1..4 : want_labels \in random_sample(label_pool(4), k)
    /\ props = [i \in 1..Len(want_labels) |-> [lbl |-> want_labels[i], info |-> SampledFour[i]]]
    /\ lbl_i = Len(props) + 1
    /\ attempt = 0
    /\ atoms_used = {_atom(props[i].info) : i \in 1..Len(props)}
    /\ entry = NoEntry
    /\ probe = NoProbe
    /\ call = NoCall

SpecSelect == InitSelect /\ [][NextEntry]_vars

(***************************************************************************)
(* _make_traces called on its own with keys that have no rule in            *)
(* _TRACE_BUILDERS, on arbitrary atom lists.                                *)
(***************************************************************************)
\* the longest atom list handed to _make_traces for a key without a rule
MaxFallbackAtoms == 3

\* keys without a rule: the skeleton U of the catalog and two names that are
\* no skeleton at all
UnruledKeys == {"U", "RELEASE", ""}

InitFallback ==
    /\ scenario = ScenarioOneAtom
    /\ num_entries = 0
    /\ max_props = DefaultMaxProps
    /\ dataset = <<>>
    /\ pc = "trace"
    /\ want_labels = <<>>
    /\ lbl_i = 0
    /\ attempt = 0
    /\ props = <<>>
    /\ atoms_used = {}
    /\ entry = NoEntry
    /\ probe = NoProbe
    /\ \E key \in UnruledKeys :
       \E labels \in UNION {[1..m -> Range(TraceAtoms)] : m \in 0..MaxFallbackAtoms} :
         call = [fn |-> "_make_traces", arg |-> <<key, labels>>, ret |-> <<>>]

SpecFallback == InitFallback /\ [][NextTrace]_vars

(***************************************************************************)
(* _entry_is_valid called on its own, on arbitrary entries.                 *)
(***************************************************************************)
\* the largest prop_dict of an arbitrary entry
MaxValidProps == 2

\* the longest lifted_sentence_prop_ids and grounded_sentence of an
\* arbitrary entry
MaxValidLen == 2

seqs_upto(S, n) == UNION {[1..m -> S] : m \in 0..n}

NoInfo == [action_canon |-> "", action_ref |-> "", args_canon |-> <<>>, args_ref |-> <<>>]

InitValid ==
    /\ scenario = ScenarioOneAtom
    /\ num_entries = 0
    /\ max_props = DefaultMaxProps
    /\ dataset = <<>>
    /\ pc = "valid"
    /\ want_labels = <<>>
    /\ lbl_i = 0
    /\ attempt = 0
    /\ props = <<>>
    /\ atoms_used = {}
    /\ entry = NoEntry
    /\ probe = NoProbe
    /\ \E n \in 0..MaxValidProps :
       \E ids \in seqs_upto(0..(MaxValidProps + 1), MaxValidLen) :
       \E toks \in seqs_upto({"the"} \cup {prop_tok(i) : i \in 1..(MaxValidProps + 1)}, MaxValidLen) :
         call = [ fn  |-> "_entry_is_valid",
                  arg |-> [NoEntry EXCEPT !.prop_dict = [i \in 1..n |-> [key |-> prop_tok(i), info |-> NoInfo]],
                                          !.lifted_sentence_prop_ids = ids,
                                          !.grounded_sentence = toks],
                  ret |-> <<>> ]

\* line 978: _entry_is_valid(entry)
CallValidator ==
    /\ pc = "valid"
    /\ call' = [call EXCEPT !.ret = _entry_is_valid(call.arg)]
    /\ pc' = "validated"
    /\ UNCHANGED <<scenario, num_entries, max_props, dataset, want_labels, lbl_i, attempt,
                   props, atoms_used, entry, probe>>

NextValid == CallValidator

SpecValid == InitValid /\ [][NextValid]_vars

(***************************************************************************)
(* Properties of the driver.                                               *)
(***************************************************************************)
\* the ids 1..N all label some token, and the tokens prop_1..prop_N all occur
\* in the masked sentence, N being the number of propositions of the entry
Covered(e) ==
    LET N == Len(e.prop_dict)
    IN  /\ \A i \in 1..N : \E j \in 1..Len(e.lifted_sentence_prop_ids) :
                               e.lifted_sentence_prop_ids[j] = i
        /\ \A i \in 1..N : \E j \in 1..Len(e.grounded_sentence) :
                               e.grounded_sentence[j] = prop_tok(i)

\* C1: in every state of build_dataset_entries, every entry held in the
\* dataset has each id 1..N in lifted_sentence_prop_ids and each token
\* prop_1..prop_N in grounded_sentence, N = len(prop_dict).
CoverageInvariant == \A k \in 1..Len(dataset) : Covered(dataset[k])

\* an entry was built, passed the validator and is held in the dataset
AcceptedEntryHeld ==
    /\ pc = "loop"
    /\ Len(dataset) = 1
    /\ Len(dataset[1].prop_dict) >= 1
    /\ Len(dataset[1].sentence) > 0

\* an entry was built that misses a proposition in its alignment
UncoveredEntryBuilt == pc = "validate" /\ ~Covered(entry)

PairwiseDistinct(atoms) ==
    \A i, j \in 1..Len(atoms) : i # j => atoms[i] # atoms[j]

\* C2: no two propositions of an example (sampled, built, accepted or
\* rejected) have the same canonical atom string, the exhausted retry budget
\* included.
DistinctnessInvariant ==
    /\ PairwiseDistinct([i \in 1..Len(props) |-> _atom(props[i].info)])
    /\ PairwiseDistinct([i \in 1..Len(entry.prop_dict) |-> _atom(entry.prop_dict[i].info)])
    /\ \A k \in 1..Len(dataset) :
         PairwiseDistinct([i \in 1..Len(dataset[k].prop_dict) |->
                             _atom(dataset[k].prop_dict[i].info)])

\* an example with two propositions was built
TwoPropositionsBuilt ==
    /\ pc = "validate"
    /\ Len(probe.handed) = 2
    /\ Len(entry.prop_dict) = 2

\* C6: when build_dataset_entries returns, the list has exactly num_entries
\* entries, each of them covered, the entry at position i has id i; for
\* num_entries = 0 nothing is ever sampled or built.
ExactCountSequentialIds ==
    /\ pc = "done" =>
         /\ Len(dataset) = num_entries
         /\ \A i \in 1..Len(dataset) : dataset[i].id = i - 1 /\ Covered(dataset[i])
    /\ num_entries = 0 =>
         /\ pc \in {"loop", "done"}
         /\ want_labels = <<>> /\ props = <<>> /\ atoms_used = {}
         /\ entry = NoEntry /\ dataset = <<>>

\* the driver returned a dataset of two entries
ReturnedTwoEntries ==
    /\ pc = "done"
    /\ num_entries = 2
    /\ Len(dataset) = 2
    /\ dataset[2].id = 1

\* C7: the sampling step hands exactly k propositions, one per sampled
\* label, to build_entry_for_props.
HandsOnePropositionPerLabel ==
    (pc = "attempt" /\ lbl_i > Len(want_labels)) => Len(props) = Len(want_labels)

\* the sampling step is over with fewer propositions than labels
FewerPropositionsThanLabels ==
    pc = "attempt" /\ lbl_i > Len(want_labels) /\ Len(props) < Len(want_labels)

(***************************************************************************)
(* Properties of build_entry_for_props and of the validator.               *)
(***************************************************************************)
\* masked_tl with each placeholder replaced by the atom of its proposition
substituted(masked_tl, prop_dict) ==
    [j \in 1..Len(masked_tl) |->
       LET hit == {i \in 1..Len(prop_dict) : prop_dict[i].key = masked_tl[j]}
       IN  IF hit = {} THEN masked_tl[j]
           ELSE _atom(prop_dict[CHOOSE i \in hit : TRUE].info)]

\* C3: for every entry built, whatever the skeleton and the order of the
\* sampled labels, replacing each placeholder of masked_tl by the canonical
\* atom of its prop_dict proposition gives tl, token for token.
RoundTripSubstitution ==
    pc = "validate" => substituted(entry.masked_tl, entry.prop_dict) = entry.tl

\* an entry of three propositions whose labels were sampled out of order
ThreePropositionsRelabelled ==
    /\ pc = "validate"
    /\ Len(entry.prop_dict) = 3
    /\ probe.handed[1].lbl = "prop_3"
    /\ probe.handed[2].lbl = "prop_1"
    /\ Len(entry.tl) > 10

\* C8: _entry_is_valid returns True exactly when every id of
\* 1..len(prop_dict) occurs in lifted_sentence_prop_ids and every token
\* prop_1..prop_len(prop_dict) occurs in grounded_sentence, False otherwise,
\* and the entry it was given is unchanged.
ValidatorExactness ==
    /\ [](pc = "validated" => (call.ret \in BOOLEAN /\ (call.ret <=> Covered(call.arg))))
    /\ [][call'.arg = call.arg]_vars

\* the validator rejected an entry that has all its ids but misses a token
RejectedForMissingToken ==
    /\ pc = "validated"
    /\ call.ret = FALSE
    /\ Len(call.arg.prop_dict) = 2
    /\ {1, 2} \subseteq Range(call.arg.lifted_sentence_prop_ids)
    /\ ~({"prop_1", "prop_2"} \subseteq Range(call.arg.grounded_sentence))

\* the word of the sentence token tok, lower-cased, without trailing punctuation
word_of(tok) == lower(rstrip_punct(tok))

\* the sentence shows the proposition info0 in gerund form right after a
\* gerund trigger word: the gerund of its first word, then the rest of its segment
rendered_as_gerund(sentence, info0, actions_cfg) ==
    LET seg  == split(_nl_segment(info0, actions_cfg))
        bare == seg[1]
        ger  == _to_gerund(bare)
    IN  /\ ger # bare
        /\ \E p \in 2..Len(sentence) :
             /\ word_of(sentence[p - 1]) \in _REQUIRES_GERUND
             /\ word_of(sentence[p]) = ger
             /\ p - 1 + Len(seg) <= Len(sentence)
             /\ \A j \in 2..Len(seg) : word_of(sentence[p + j - 1]) = lower(seg[j])

\* C9: a proposition whose action reference the sentence shows in gerund
\* form after a gerund trigger word has the gerund form as its stored
\* action_ref after build_entry_for_props.
GerundRegrounded ==
    pc = "validate" =>
        \A i \in 1..Len(entry.prop_dict) :
            rendered_as_gerund(entry.sentence, probe.handed[i].info, scenario.actions_cfg) =>
                split(entry.prop_dict[i].info.action_ref)[1]
                    = _to_gerund(split(probe.handed[i].info.action_ref)[1])

\* the sentence shows a proposition in gerund form while its stored
\* action_ref is still the bare form
GerundShownBareStored ==
    /\ pc = "validate"
    /\ \E i \in 1..Len(entry.prop_dict) :
         /\ rendered_as_gerund(entry.sentence, probe.handed[i].info, scenario.actions_cfg)
         /\ entry.prop_dict[i].info.action_ref = probe.handed[i].info.action_ref

\* the arity that LTL_TEMPLATES_STATE registers for the skeleton named key
arity_of(key) ==
    LTL_TEMPLATES_STATE[CHOOSE k \in 1..Len(LTL_TEMPLATES_STATE) : LTL_TEMPLATES_STATE[k][1] = key][2]

\* C11: the skeleton picked for c propositions has arity c when the catalog
\* has one of arity c, an arity a <= c otherwise; the entry is built from
\* the first a labels in insertion order and prop_dict has a entries.
SkeletonSelection ==
    pc = "validate" =>
        LET c == Len(probe.handed)
            a == arity_of(probe.key)
        IN  /\ (\E k \in 1..Len(LTL_TEMPLATES_STATE) : LTL_TEMPLATES_STATE[k][2] = c) => a = c
            /\ a <= c
            /\ Len(entry.prop_dict) = a
            /\ \A i \in 1..a : _atom(entry.prop_dict[i].info) = _atom(probe.handed[i].info)
            /\ entry.tl = skeleton(probe.key, [i \in 1..a |-> _atom(probe.handed[i].info)])

\* four propositions were handed over and a skeleton of arity two was picked
FallbackSkeletonPicked ==
    /\ pc = "validate"
    /\ Len(probe.handed) = 4
    /\ arity_of(probe.key) = 2
    /\ Len(entry.prop_dict) = 2

\* C12: every skeleton of LTL_TEMPLATES_STATE has a rule in _TRACE_BUILDERS,
\* so no entry of build_entry_for_props carries the fallback traces of
\* _make_traces.
CatalogHasTraceRules ==
    (pc = "validate" /\ probe.key # "") => has_rule(probe.key)

\* an entry was built from a skeleton without a rule and carries the
\* fallback traces
EntryWithFallbackTraces ==
    /\ pc = "validate"
    /\ probe.key # ""
    /\ ~has_rule(probe.key)
    /\ entry.bad_trace = << <<>>, <<>>, <<>> >>

\* C13: for a key without a rule in _TRACE_BUILDERS, _make_traces returns a
\* good trace of one moment holding all the atoms given and a bad trace of
\* three empty moments.
FallbackTraces ==
    (pc = "traced" /\ ~has_rule(call.arg[1])) =>
        /\ Len(call.ret[1]) = 1
        /\ call.ret[1][1] = call.arg[2]
        /\ Len(call.ret[2]) = 3
        /\ \A i \in 1..3 : call.ret[2][i] = <<>>

\* the fallback answered for three atoms, one of them twice
FallbackAnswered ==
    /\ pc = "traced"
    /\ ~has_rule(call.arg[1])
    /\ Len(call.arg[2]) = 3
    /\ call.arg[2][1] = call.arg[2][3]
    /\ Len(call.ret[2]) = 3

\* the masked sentence accounts for the sentence from position p on, masked
\* being read from position q on: a token with id 0 is copied, a span of
\* tokens with one id i > 0 is replaced by the one token prop_i
RECURSIVE accounted(_, _, _, _, _)
accounted(sentence, ids, masked, p, q) ==
    IF p > Len(sentence) THEN q = Len(masked) + 1
    ELSE IF q > Len(masked) THEN FALSE
    ELSE IF ids[p] = 0
         THEN masked[q] = sentence[p] /\ accounted(sentence, ids, masked, p + 1, q + 1)
    ELSE /\ masked[q] = prop_tok(ids[p])
         /\ \E L \in 1..(Len(sentence) - p + 1) :
              /\ \A j \in p..(p + L - 1) : ids[j] = ids[p]
              /\ accounted(sentence, ids, masked, p + L, q + 1)

\* C14: the keys of prop_dict are prop_1..prop_N whatever labels were
\* sampled, and one index i stands for a proposition everywhere: as its key
\* in prop_dict, as its placeholder in masked_tl, as the id of its span in
\* lifted_sentence_prop_ids and as the placeholder of that span in
\* grounded_sentence.
PlaceholderConsistency ==
    pc = "validate" =>
        LET N == Len(entry.prop_dict)
        IN  /\ \A i \in 1..N : entry.prop_dict[i].key = prop_tok(i)
            /\ \A i \in 1..N : _atom(entry.prop_dict[i].info) = _atom(probe.handed[i].info)
            /\ entry.masked_tl = skeleton(probe.key, [i \in 1..N |-> prop_tok(i)])
            /\ \A p \in 1..Len(entry.lifted_sentence_prop_ids) :
                 LET i == entry.lifted_sentence_prop_ids[p]
                 IN  i # 0 =>
                       /\ i \in 1..N
                       /\ \E w \in Range(split(lower(_nl_segment(entry.prop_dict[i].info,
                                                                   scenario.actions_cfg)))) :
                            _same_word(entry.sentence[p], w)
            /\ accounted(entry.sentence, entry.lifted_sentence_prop_ids, entry.grounded_sentence, 1, 1)

\* an entry of two propositions sampled under the labels prop_3 and prop_2,
\* both aligned in the sentence
RelabelledAndAligned ==
    /\ pc = "validate"
    /\ Len(entry.prop_dict) = 2
    /\ probe.handed[1].lbl = "prop_3"
    /\ probe.handed[2].lbl = "prop_2"
    /\ Covered(entry)

\* C18: lifted_sentence_prop_ids is as long as sentence and holds values of
\* 0..N; a matched span has one id on all its positions and gives one
\* placeholder token, an unmatched token has id 0 and is copied in order;
\* len(grounded_sentence) = len(sentence) - non-zero ids + matched spans.
AlignmentAccounting ==
    pc = "validate" =>
        LET N      == Len(entry.prop_dict)
            ids    == entry.lifted_sentence_prop_ids
            masked == entry.grounded_sentence
            spans  == {q \in 1..Len(masked) : \E i \in 1..N : masked[q] = prop_tok(i)}
        IN  /\ Len(ids) = Len(entry.sentence)
            /\ \A p \in 1..Len(ids) : ids[p] \in 0..N
            /\ accounted(entry.sentence, ids, masked, 1, 1)
            /\ Len(masked) = Len(entry.sentence)
                               - Cardinality({p \in 1..Len(ids) : ids[p] # 0})
                               + Cardinality(spans)

\* an entry with a span of several tokens and a shorter masked sentence
SpanCollapsed ==
    /\ pc = "validate"
    /\ Len(entry.prop_dict) = 3
    /\ Covered(entry)
    /\ Len(entry.grounded_sentence) + 4 <= Len(entry.sentence)

(***************************************************************************)
(* _sample_argument alone, on each kind it knows, with the object and       *)
(* location tables of ScenarioThreeAtoms.                                   *)
(***************************************************************************)
InitSample ==
    /\ scenario = ScenarioThreeAtoms
    /\ num_entries = 0
    /\ max_props = DefaultMaxProps
    /\ dataset = <<>>
    /\ pc = "sample"
    /\ want_labels = <<>>
    /\ lbl_i = 0
    /\ attempt = 0
    /\ props = <<>>
    /\ atoms_used = {}
    /\ entry = NoEntry
    /\ probe = NoProbe
    /\ \E kind \in KnownKinds :
         call = [fn |-> "_sample_argument", arg |-> <<kind>>, ret |-> <<>>]

\* line 958: c, r = _sample_argument(kind, objects, locs)
SampleArgument ==
    /\ pc = "sample"
    /\ \E cr \in _sample_argument(call.arg[1], scenario.objects, scenario.locs) :
         call' = [call EXCEPT !.ret = cr]
    /\ pc' = "sampled"
    /\ UNCHANGED <<scenario, num_entries, max_props, dataset, want_labels, lbl_i, attempt,
                   props, atoms_used, entry, probe>>

NextSample == SampleArgument

SpecSample == InitSample /\ [][NextSample]_vars

\* the modifier words and the nouns of the composed kinds; for sr_target the
\* nouns of both of its branches
modifiers_of(kind) ==
    CASE kind = "person"    -> {"injured", "safe"}
      [] kind = "threat"    -> {"active", "inactive", "impending", "probable", "nearest"}
      [] kind = "sr_target" -> {"injured", "safe", "unsafe"}

nouns_of(kind) ==
    CASE kind = "person"    -> {"victim", "rescuer", "hostile"}
      [] kind = "threat"    -> ThreatNouns
      [] kind = "sr_target" -> {"person", "civilian", "victim", "rescuer"} \cup ThreatNouns

\* C16: for the kinds person, threat and sr_target every pair returned by
\* _sample_argument has a canonical <modifier>_<noun> with the modifier and
\* the noun from the kind's fixed sets, and a reference that is the canonical
\* with each underscore replaced by a space.
ModifierNounComposition ==
    (pc = "sampled" /\ call.arg[1] \in {"person", "threat", "sr_target"}) =>
        /\ \E m \in modifiers_of(call.arg[1]) : \E n \in nouns_of(call.arg[1]) :
              call.ret[1] = m \o "_" \o n
        /\ call.ret[2] = replace(call.ret[1], "_", " ")

\* sr_target answered with a threat noun that carries no modifier
BareThreatNounSampled ==
    pc = "sampled" /\ call.arg[1] = "sr_target" /\ call.ret[1] \in ThreatNouns

(***************************************************************************)
(* The driver run to its end, one-atom vocabulary and max_props passed as   *)
(* 1.  The interpreter keeps executing the loop (weak fairness of the       *)
(* steps other than the build), and the random draws of the build give a   *)
(* valid entry again and again, which also keeps the build itself from      *)
(* being postponed forever.                                                 *)
(***************************************************************************)
MaxLive == 1

InitLive ==
    /\ scenario = ScenarioOneAtom
    /\ num_entries \in 0..MaxLive
    /\ max_props = 1
    /\ dataset = <<>>
    /\ pc = "loop"
    /\ want_labels = <<>>
    /\ lbl_i = 0
    /\ attempt = 0
    /\ props = <<>>
    /\ atoms_used = {}
    /\ entry = NoEntry
    /\ probe = NoProbe
    /\ call = NoCall

\* lines 975-978: the build hands a valid entry to validation
BuildYieldsValid ==
    /\ pc = "attempt"
    /\ lbl_i > Len(want_labels)
    /\ pc' = "validate"
    /\ _entry_is_valid(entry')

\* a freshly sampled example passes validation again and again, unless the
\* loop stops coming to the build
FreshExamplePasses ==
    \/ <>[]~(pc = "attempt" /\ lbl_i > Len(want_labels))
    \/ []<><<BuildYieldsValid>>_vars

SpecLive ==
    /\ InitLive
    /\ [][NextCount]_vars
    /\ WF_vars(SampleLabels \/ Attempt \/ Validate \/ Return)
    /\ FreshExamplePasses

\* the order of the program points of one iteration: sample, ground, validate
iteration_order ==
    {<<"loop", "attempt">>, <<"attempt", "attempt">>, <<"attempt", "validate">>,
     <<"validate", "loop">>, <<"loop", "done">>}

\* C17: each iteration samples, grounds and validates once, in that order;
\* the length of the dataset never decreases and grows by exactly one on
\* each passing validation and on nothing else; when validation passes
\* again and again the loop reaches len(dataset) = num_entries and returns;
\* once the count is reached no further iteration starts.
DriverTermination ==
    /\ [][(<<pc, pc'>> \in iteration_order)]_vars
    /\ [][IF pc = "validate" /\ _entry_is_valid(entry)
           THEN Len(dataset') = Len(dataset) + 1
           ELSE Len(dataset') = Len(dataset)]_vars
    /\ [][(pc = "loop" /\ Len(dataset) >= num_entries) => pc' = "done"]_vars
    /\ <>(pc = "done" /\ Len(dataset) = num_entries)

\* the loop ran until the requested entry was kept, and returned
ReturnedAtRequestedCount ==
    pc = "done" /\ num_entries = MaxLive /\ Len(dataset) = num_entries

\* kinds outside the ten that _sample_argument knows
UnknownKinds == {"target", "vehicle", ""}

\* C15: _sample_argument raises for every kind it does not know and returns
\* no pair; when a verb has such a kind the error leaves
\* build_dataset_entries: no proposition is sampled for that verb, and once
\* raised nothing is appended and no dataset is returned.
UnknownKindFatal ==
    /\ [](\A kind \in UnknownKinds : _sample_argument(kind, scenario.objects, scenario.locs) = {})
    /\ [](\A i \in 1..Len(props) :
            \A j \in 1..Len(scenario.actions_cfg[props[i].info.action_canon]) :
               scenario.actions_cfg[props[i].info.action_canon][j] \in KnownKinds)
    /\ []((pc = "attempt" /\ lbl_i <= Len(want_labels) /\ attempt < MaxAttempts) => ENABLED Raise)
    /\ [][pc = "raised" => (pc' = "raised" /\ dataset' = dataset)]_vars

\* the error was raised while the second proposition of an example was sampled
RaisedAfterOneProposition == pc = "raised" /\ Len(props) = 1 /\ dataset = <<>>

\* C19: build_entry_for_props leaves action_canon, args_canon and args_ref of
\* every proposition handed to it as they were, leaves action_ref as it was
\* or sets it to the gerund of its first word, and the values of prop_dict
\* are the propositions of the labels used, in their order.
PropositionFrame ==
    pc = "validate" =>
        /\ Len(props) = Len(probe.handed)
        /\ \A i \in 1..Len(props) :
             /\ props[i].lbl = probe.handed[i].lbl
             /\ props[i].info.action_canon = probe.handed[i].info.action_canon
             /\ props[i].info.args_canon = probe.handed[i].info.args_canon
             /\ props[i].info.args_ref = probe.handed[i].info.args_ref
             /\ props[i].info.action_ref \in
                  { probe.handed[i].info.action_ref,
                    _to_gerund(split(probe.handed[i].info.action_ref)[1]) }
        /\ Len(entry.prop_dict) = Min({arity_of(probe.key), Len(props)})
        /\ \A i \in 1..Len(entry.prop_dict) : entry.prop_dict[i].info = props[i].info

\* a build replaced the action_ref of a proposition by its gerund
ActionRefReplaced ==
    /\ pc = "validate"
    /\ \E i \in 1..Len(props) : props[i].info.action_ref # probe.handed[i].info.action_ref

\* C20: a rejected entry leaves the dataset as it was before its iteration:
\* no step of an iteration before validation changes the dataset, a failing
\* validation does not change it, and the next iteration starts with no
\* proposition, no used atom and no entry of the rejected example.
RejectionLeavesDataset ==
    /\ [][(pc = "loop" /\ pc' = "attempt") => dataset' = dataset]_vars
    /\ [][pc = "attempt" => dataset' = dataset]_vars
    /\ [][(pc = "validate" /\ ~_entry_is_valid(entry)) => dataset' = dataset]_vars
    /\ [][(pc = "loop" /\ pc' = "attempt") =>
            (props' = <<>> /\ atoms_used' = {} /\ attempt' = 0 /\ lbl_i' = 1
             /\ entry' = NoEntry /\ probe' = NoProbe)]_vars

\* an entry that validation rejects has been built, the dataset still empty
RejectedEntryAtValidation ==
    pc = "validate" /\ ~_entry_is_valid(entry) /\ dataset = <<>>

(***************************************************************************)
(* The token-alignment loop of build_entry_for_props run one iteration at   *)
(* a time, on every sentence of up to MaxAlignLen tokens and every          *)
(* assignment of segments of up to MaxAlignLen tokens, the empty segment    *)
(* included, to one to MaxAlignLabels labels.  call.ret holds the loop's    *)
(* locals: the scan position i (1-based), ids, masked, and the number of    *)
(* iterations done, which is followed up to MaxAlignIterations.             *)
(***************************************************************************)
MaxAlignLen == 2

MaxAlignLabels == 2

MaxAlignIterations == 4

AlignWords == {"go", "box"}

align_seqs == UNION {[1..n -> AlignWords] : n \in 0..MaxAlignLen}

InitAlign ==
    /\ scenario = ScenarioOneAtom
    /\ num_entries = 0
    /\ max_props = DefaultMaxProps
    /\ dataset = <<>>
    /\ pc = "align"
    /\ want_labels = <<>>
    /\ lbl_i = 0
    /\ attempt = 0
    /\ props = <<>>
    /\ atoms_used = {}
    /\ entry = NoEntry
    /\ probe = NoProbe
    /\ \E g_tok \in align_seqs :
       \E n \in 1..MaxAlignLabels :
       \E seg_tokens \in [1..n -> align_seqs] :
         call = [fn  |-> "align",
                 arg |-> <<g_tok, seg_tokens>>,
                 ret |-> [i |-> 1, ids |-> [p \in 1..Len(g_tok) |-> 0], masked |-> <<>>,
                          iterations |-> 0]]

\* lines 799-817: one iteration of the while loop
AlignStep ==
    /\ pc = "align"
    /\ call.ret.i <= Len(call.arg[1])
    /\ call.ret.iterations < MaxAlignIterations
    /\ LET g_tok      == call.arg[1]
           seg_tokens == call.arg[2]
           i          == call.ret.i
           l          == first_match(g_tok, i, seg_tokens)
       IN  call' = [call EXCEPT !.ret =
                     IF l = 0
                     THEN [i          |-> i + 1,
                           ids        |-> call.ret.ids,
                           masked     |-> Append(call.ret.masked, g_tok[i]),
                           iterations |-> call.ret.iterations + 1]
                     ELSE [i          |-> i + Len(seg_tokens[l]),
                           ids        |-> [p \in 1..Len(g_tok) |->
                                            IF p >= i /\ p < i + Len(seg_tokens[l])
                                            THEN l ELSE call.ret.ids[p]],
                           masked     |-> Append(call.ret.masked, prop_tok(l)),
                           iterations |-> call.ret.iterations + 1]]
    /\ UNCHANGED <<scenario, num_entries, max_props, dataset, pc, want_labels, lbl_i, attempt,
                   props, atoms_used, entry, probe>>

\* line 799: the loop test fails
AlignEnd ==
    /\ pc = "align"
    /\ call.ret.i > Len(call.arg[1])
    /\ pc' = "aligned"
    /\ UNCHANGED <<call, scenario, num_entries, max_props, dataset, want_labels, lbl_i, attempt,
                   props, atoms_used, entry, probe>>

NextAlign == AlignStep \/ AlignEnd

SpecAlign == InitAlign /\ [][NextAlign]_vars

\* C22: each iteration of the alignment loop moves the scan position on by
\* at least one token, so after k iterations the position is at least k and
\* the loop has run at most len(sentence) iterations, whatever the segments
\* are, the empty one included.
AlignmentScanProgress ==
    pc \in {"align", "aligned"} =>
        /\ call.ret.i - 1 >= call.ret.iterations
        /\ call.ret.iterations <= Len(call.arg[1])

\* an iteration matched a segment of no tokens and left the scan position
\* where it was
EmptySegmentMatched ==
    /\ pc = "align"
    /\ call.ret.iterations >= 1
    /\ call.ret.i <= Len(call.arg[1])
    /\ call.ret.masked # <<>>
    /\ call.ret.masked[Len(call.ret.masked)] \in {prop_tok(l) : l \in 1..Len(call.arg[2])}
    /\ first_match(call.arg[1], call.ret.i, call.arg[2]) # 0
    /\ Len(call.arg[2][first_match(call.arg[1], call.ret.i, call.arg[2])]) = 0

\* a token literally of the form prop_<digits>
is_placeholder(tok) ==
    /\ Len(tok) > 5
    /\ SubSeq(tok, 1, 5) = "prop_"
    /\ \A k \in 6..Len(tok) : tok[k] \in Range("0123456789")

\* C21: in every entry build_entry_for_props returns whose sentence has no
\* token of the form prop_<digits>, an id i of 1..N occurs in
\* lifted_sentence_prop_ids exactly when the token prop_i occurs in
\* grounded_sentence, so the two conditions of _entry_is_valid pass or fail
\* together.
CoverageHalvesAgree ==
    (pc = "validate" /\ \A k \in 1..Len(entry.sentence) : ~is_placeholder(entry.sentence[k])) =>
        /\ \A i \in 1..Len(entry.prop_dict) :
              (i \in Range(entry.lifted_sentence_prop_ids))
                <=> (prop_tok(i) \in Range(entry.grounded_sentence))
        /\ _entry_is_valid_ids_only(entry)
              <=> ({prop_tok(i) : i \in 1..Len(entry.prop_dict)} \subseteq Range(entry.grounded_sentence))

\* an entry was built in which one proposition is labelled and masked and
\* another is neither
OneCoveredOneMissing ==
    /\ pc = "validate"
    /\ \E i, j \in 1..Len(entry.prop_dict) :
         /\ i \in Range(entry.lifted_sentence_prop_ids)
         /\ prop_tok(i) \in Range(entry.grounded_sentence)
         /\ j \notin Range(entry.lifted_sentence_prop_ids)
         /\ prop_tok(j) \notin Range(entry.grounded_sentence)

====
